---------------------------- MODULE Spec2Model ----------------------------
(***************************************************************************)
(* A model of the render pipeline of the FreeCAD Render workbench          *)
(* (src/Render.py, src/renderers/Povray.py).                               *)
(*                                                                         *)
(* Texts are sequences of tokens.  A token is one character of interest    *)
(* (the newline, the backslash, the digit 1) or a word that the code       *)
(* treats as a unit (a marker of the template, a fragment written by a     *)
(* backend).  Words start with an ASCII letter that is not an escape       *)
(* letter of Python's re replacement templates.                            *)
(***************************************************************************)
EXTENDS Integers, Sequences, FiniteSets, TLC

(***************************************************************************)
(* Bounds of the model.                                                    *)
(***************************************************************************)
\* Longest template, in tokens, explored by the template-merge checks.
MaxTemplateLen == 4
\* Longest camera text / object text, in tokens, explored by the merge checks.
MaxReplLen == 2
\* Number of nodes (groups and views) below the project in a group tree.
MaxNodes == 2
\* The largest number of nodes below the project in the trees all_views is
\* called on.
MaxTreeNodes == 4
\* Number of nodes below the project in the scenes whose order of collection
\* is explored.
MaxOrderNodes == 3
\* Number of objects (groups included) passed to add_objects.
MaxAddNodes == 3
\* The largest number of pairs of temporary objects that renders leave in
\* the document.
MaxLeftOver == 2
\* The largest number of temporary files that renders leave.
MaxTempFiles == 2

(***************************************************************************)
(* Tokens and texts.                                                       *)
(***************************************************************************)
NL == "\n"
BS == "\\"
ONE == "1"
CameraMarker == "RaytracingCamera"
ContentMarker == "RaytracingContent"

\* '\n'.join(strings)
RECURSIVE Join(_)
Join(strings) ==
    IF Len(strings) = 0 THEN << >>
    ELSE IF Len(strings) = 1 THEN strings[1]
    ELSE strings[1] \o <<NL>> \o Join(Tail(strings))

\* marker in text
Contains(text, marker) == \E i \in 1..Len(text) : text[i] = marker

\* The lines of a text: the maximal runs of tokens other than the newline
\* (what the pattern ".*" can match), in order.
RECURSIVE SplitLines(_, _)
SplitLines(text, cur) ==
    IF Len(text) = 0 THEN <<cur>>
    ELSE IF Head(text) = NL THEN <<cur>> \o SplitLines(Tail(text), << >>)
    ELSE SplitLines(Tail(text), Append(cur, Head(text)))

\* sre_parse.parse_template and expand_template for a pattern with one group:
\* the replacement `repl`, from position i on, for a match whose group 1 is
\* `grp`.  err is TRUE when re.error is raised.
RECURSIVE ExpandFrom(_, _, _)
ExpandFrom(repl, i, grp) ==
    LET Pre(toks, k) ==
            LET rest == ExpandFrom(repl, k, grp)
            IN  [err |-> rest.err, out |-> toks \o rest.out]
        Bad == [err |-> TRUE, out |-> << >>]
        At(k) == IF k <= Len(repl) THEN repl[k] ELSE "<end>"
    IN  IF i > Len(repl) THEN [err |-> FALSE, out |-> << >>]
        ELSE IF repl[i] # BS THEN Pre(<<repl[i]>>, i + 1)
        ELSE IF i = Len(repl) THEN Bad                 \* bad escape (end of pattern)
        ELSE IF repl[i + 1] = BS THEN Pre(<<BS>>, i + 2)
        ELSE IF repl[i + 1] = NL THEN Pre(<<BS, NL>>, i + 2)
        ELSE IF repl[i + 1] = ONE THEN
            IF At(i + 2) = ONE
            THEN IF At(i + 3) = ONE
                 THEN Pre(<<"I">>, i + 4)              \* octal escape \111
                 ELSE Bad                              \* invalid group reference 11
            ELSE Pre(grp, i + 2)                       \* group 1
        ELSE Bad                                       \* bad escape: \ and a letter

\* re.sub with count=1: a fault that replaces the first matching line only.
RECURSIVE SubFirstLine(_, _, _)
SubFirstLine(lines, marker, repl) ==
    IF Len(lines) = 0 THEN << >>
    ELSE IF Contains(Head(lines), marker)
    THEN <<ExpandFrom(repl, 1, Head(lines)).out>> \o Tail(lines)
    ELSE <<Head(lines)>> \o SubFirstLine(Tail(lines), marker, repl)

\* re.sub("(.*" + marker + ".*)", repl, text): every line that contains the
\* marker is replaced by the expansion of repl; the replacement template is
\* parsed first, whether or not a line matches.
RECURSIVE SubLines(_, _, _)
SubLines(lines, marker, repl) ==
    IF Len(lines) = 0 THEN << >>
    ELSE <<IF Contains(Head(lines), marker)
           THEN ExpandFrom(repl, 1, Head(lines)).out
           ELSE Head(lines)>> \o SubLines(Tail(lines), marker, repl)

ReSub(marker, repl, text) ==
    IF ExpandFrom(repl, 1, << >>).err
    THEN [err |-> TRUE, out |-> text]
    ELSE [err |-> FALSE, out |-> Join(SubLines(SplitLines(text, << >>), marker, repl))]

\* Project.render, lines 429-437: merge cam and objstrings into the template.
MergeTemplate(template, cam, objstrings) ==
    LET renderobjs == Join(objstrings)
    IN  IF Contains(template, CameraMarker)
        THEN LET first == ReSub(CameraMarker, cam, template)
             IN  IF first.err THEN first
                 ELSE ReSub(ContentMarker, renderobjs, first.out)
        ELSE ReSub(ContentMarker, cam \o <<NL>> \o renderobjs, template)

(***************************************************************************)
(* Python exceptions, by class name.  NoExc: nothing was raised.           *)
(***************************************************************************)
NoExc == ""
AttributeError == "AttributeError"
TypeError == "TypeError"
AssertionError == "AssertionError"
ValueError == "ValueError"
KeyError == "KeyError"
ReError == "re.error"
OSError == "OSError"
NameError == "NameError"

(***************************************************************************)
(* Document objects that views wrap (the Sources).  Attribute values:      *)
(* "absent" is an attribute the object does not have; a numeric attribute  *)
(* holds a numeral ("60") or a string that is no number ("wide").          *)
(***************************************************************************)
NoSource == "None"      \* the value of a view's Source link when it is unset

Numerals == {"0", "0.5", "1", "2", "60", "100"}

\* Bounding boxes of shapes: one of a small object, and one of an object that
\* contains it.
BoundBox(xmin, xmax, ymin, ymax, zmin, zmax) ==
    [XMin |-> xmin, XMax |-> xmax, YMin |-> ymin, YMax |-> ymax,
     ZMin |-> zmin, ZMax |-> zmax]

SmallBox == BoundBox(0, 2, 0, 1, 0, 2)

LargeBox == BoundBox(0, 4, 0, 2, 0, 4)

BaseObject ==
    [Name |-> "Object", ptype |-> "absent", TypeId |-> "Part::Feature",
     hasGroup |-> FALSE, Visibility |-> TRUE, hasShape |-> TRUE,
     mesh |-> "valid", Location |-> "absent", Color |-> "absent",
     Power |-> "absent", SizeU |-> "absent", SizeV |-> "absent",
     AspectRatio |-> "absent", Placement |-> "ok",
     Material |-> "absent", ShapeColor |-> <<"0.8", "0.8", "0.8", "0.0">>,
     Transparency |-> 0, BoundBox |-> SmallBox]

BaseFeaturePython ==
    [BaseObject EXCEPT !.TypeId = "App::FeaturePython", !.hasShape = FALSE,
                       !.mesh = "absent"]

\* The sources of the scenes explored, by object name.
SourceObject(name) ==
    CASE name = "Box" -> [BaseObject EXCEPT !.Name = "Box"]
      [] name = "Hidden" ->
            [BaseObject EXCEPT !.Name = "Hidden", !.Visibility = FALSE,
                               !.BoundBox = LargeBox]
      [] name = "NoPoints" ->
            [BaseObject EXCEPT !.Name = "NoPoints", !.mesh = "nopoints"]
      [] name = "NoFacets" ->
            [BaseObject EXCEPT !.Name = "NoFacets", !.mesh = "nofacets"]
      [] name = "NoNormals" ->
            [BaseObject EXCEPT !.Name = "NoNormals", !.TypeId = "Mesh::Feature",
                               !.hasShape = FALSE, !.mesh = "nonormals"]
      [] name = "Sketch" ->
            [BaseObject EXCEPT !.Name = "Sketch", !.TypeId = "App::FeaturePython",
                               !.hasShape = FALSE, !.mesh = "absent"]
      [] name = "Lamp" ->
            [BaseFeaturePython EXCEPT !.Name = "Lamp", !.ptype = "PointLight",
                                      !.Location = "ok", !.Color = "ok",
                                      !.Power = "100"]
      [] name = "Bulb" ->
            [BaseFeaturePython EXCEPT !.Name = "Bulb", !.ptype = "PointLight",
                                      !.Location = "ok", !.Color = "ok"]
      [] name = "Panel" ->
            [BaseFeaturePython EXCEPT !.Name = "Panel", !.ptype = "AreaLight",
                                      !.Color = "ok", !.Power = "60",
                                      !.SizeU = "2", !.SizeV = "1"]
      [] name = "Wide" ->
            [BaseFeaturePython EXCEPT !.Name = "Wide", !.ptype = "AreaLight",
                                      !.Color = "ok", !.Power = "60",
                                      !.SizeU = "wide", !.SizeV = "1"]
      [] name = "Strip" ->
            [BaseFeaturePython EXCEPT !.Name = "Strip", !.ptype = "AreaLight",
                                      !.Color = "ok", !.Power = "60",
                                      !.SizeU = "2"]
      [] name = "Cam" ->
            [BaseFeaturePython EXCEPT !.Name = "Cam", !.ptype = "Camera",
                                      !.AspectRatio = "1"]
      [] name = "Sun" ->
            [BaseFeaturePython EXCEPT !.Name = "Sun", !.ptype = "Sun",
                                      !.Location = "ok", !.Color = "ok"]
      [] name = "Tinted" ->
            [BaseObject EXCEPT !.Name = "Tinted", !.Transparency = 30,
                               !.ShapeColor = <<"0.2", "0.4", "0.6", "0.0">>]
      [] name = "Ghost" ->
            [BaseObject EXCEPT !.Name = "Ghost", !.Transparency = 100]
      [] name = "Coated" ->
            [BaseObject EXCEPT !.Name = "Coated", !.Material = "Glass",
                               !.Transparency = 30]

\* The source of the default camera built by Project.render (lines 405-413):
\* a namespace with Proxy.type, Name and Label, filled in by
\* camera.set_cam_from_coin_string.
DefaultCameraSource ==
    [BaseFeaturePython EXCEPT !.Name = "Default_Camera", !.ptype = "Camera",
                              !.TypeId = "SimpleNamespace",
                              !.AspectRatio = "1"]

\* Document.addObject(type, name) when n objects asked for under that name
\* are in the document already: the name asked for when it is free,
\* otherwise that name with a number of three digits.
DummyName(name, n) ==
    IF n = 0 THEN name ELSE name \o "00" \o ToString(n)

\* The names that line 300 may give to the first temporary object.
DummySourceNames == {DummyName("dummygroundplane1", n) : n \in 0..MaxLeftOver}

\* The source of the temporary ground plane view (lines 300-301).
GroundPlaneSource(name) == [BaseObject EXCEPT !.Name = name]

\* The object a Source link names.
Deref(name) ==
    CASE name = "Default_Camera" -> DefaultCameraSource
      [] name \in DummySourceNames -> GroundPlaneSource(name)
      [] OTHER -> SourceObject(name)

\* Material objects, by name: whether the object has a Material property,
\* and the entries "DiffuseColor" (as tokens) and "Transparency" of that
\* dictionary ("absent": no such entry).
MaterialObject(name) ==
    CASE name = "Gold" ->
            [hasMaterialProp |-> TRUE,
             DiffuseColor |-> <<"(", "0.9", ",", "0.7", ",", "0.1", ",", "1.0", ")">>,
             Transparency |-> "0"]
      [] name = "Glass" ->
            [hasMaterialProp |-> TRUE, DiffuseColor |-> <<"absent">>,
             Transparency |-> "0.5"]
      [] name = "Clear" ->
            [hasMaterialProp |-> TRUE,
             DiffuseColor |-> <<"(", "0.9", ",", "0.9", ",", "1.0", ",", "1.0", ")">>,
             Transparency |-> "1"]

(***************************************************************************)
(* Renderer modules.  A module maps the name of each function it defines   *)
(* to the number of its parameters and to what its body does when called   *)
(* the way RendererHandler calls it: "text" (returns a rendering string)   *)
(* or the exception it raises.                                             *)
(***************************************************************************)
Method(arity, body) == [arity |-> arity, body |-> body]

\* src/renderers/Povray.py.  write_camera has five parameters; write_object
\* and write_pointlight read the attribute Name of their first argument,
\* which RendererHandler passes as a string; write_arealight is not defined.
PovrayModule ==
    [write_camera |-> Method(5, "text"),
     write_object |-> Method(4, AttributeError),
     write_pointlight |-> Method(4, AttributeError),
     render |-> Method(6, "path")]

\* A module that follows the backend contract.
StubModule ==
    [write_camera |-> Method(4, "text"),
     write_object |-> Method(4, "text"),
     write_pointlight |-> Method(4, "text"),
     write_arealight |-> Method(6, "text"),
     render |-> Method(6, "path")]

\* A module whose write_* functions reject their input.
RaisingModule ==
    [write_camera |-> Method(4, ValueError),
     write_object |-> Method(4, ValueError),
     write_pointlight |-> Method(4, ValueError),
     write_arealight |-> Method(6, ValueError),
     render |-> Method(6, "path")]

\* A module that follows the backend contract, except that its write_object
\* rejects its input.
RejectingModule ==
    [write_camera |-> Method(4, "text"),
     write_object |-> Method(4, ValueError),
     write_pointlight |-> Method(4, "text"),
     write_arealight |-> Method(6, "text"),
     render |-> Method(6, "path")]

\* The modules found in the renderers directory, by name.
InstalledRenderers == {"Povray", "Stub", "Raising", "Rejecting"}

RendererModule(rdrname) ==
    CASE rdrname = "Povray" -> PovrayModule
      [] rdrname = "Stub" -> StubModule
      [] rdrname = "Raising" -> RaisingModule
      [] rdrname = "Rejecting" -> RejectingModule

(***************************************************************************)
(* RendererHandler: the dispatch of a view to the renderer module.         *)
(* A view is a record [Label, Source, Material]: Source is the name of a    *)
(* source object or NoSource, Material that of a material or NoMaterial.   *)
(* A call returns [raised, text, calls, warnings]: the exception that      *)
(* leaves it (NoExc: none), the string returned, the functions of the      *)
(* module that were entered (with their arguments), and the views named    *)
(* in the warnings printed.                                                *)
(***************************************************************************)
NoMaterial == "None"

Returned(text, calls) ==
    [raised |-> NoExc, text |-> text, calls |-> calls, warnings |-> << >>]

Raised(exc, calls) ==
    [raised |-> exc, text |-> << >>, calls |-> calls, warnings |-> << >>]

\* The exception float(value) raises for an attribute value, or NoExc.
FloatRaises(value) ==
    IF value = "absent" THEN AttributeError
    ELSE IF value \in Numerals THEN NoExc
    ELSE ValueError

\* The rendering string a module's write_* function returns.
RenderingString(method, name) ==
    CASE method = "write_camera" -> <<"camera:" \o name>>
      [] method = "write_object" -> <<"object:" \o name>>
      [] method = "write_pointlight" -> <<"pointlight:" \o name>>
      [] method = "write_arealight" -> <<"arealight:" \o name>>

\* RendererHandler._call_renderer, lines 966-977.
CallRenderer(module, method, args) ==
    IF method \notin DOMAIN module THEN Raised(AttributeError, << >>)
    ELSE IF module[method].arity # Len(args) THEN Raised(TypeError, << >>)
    ELSE LET call == [fn |-> method, args |-> args]
         IN  IF module[method].body = "text"
             THEN Returned(RenderingString(method, args[1]), <<call>>)
             ELSE Raised(module[method].body, <<call>>)

\* float(t) of a material's transparency, in hundredths.
Hundredths(t) ==
    CASE t = "0" -> 0 [] t = "0.5" -> 50 [] t = "1" -> 100 [] OTHER -> 0

\* strip("(").strip(")").split(",") of a color string given as its tokens.
RECURSIVE SplitComma(_)
SplitComma(toks) ==
    IF Len(toks) = 0 THEN << >>
    ELSE IF Head(toks) \in {"(", ")", ","} THEN SplitComma(Tail(toks))
    ELSE <<Head(toks)>> \o SplitComma(Tail(toks))

\* seq[:3]
FirstThree(seq) == SubSeq(seq, 1, IF Len(seq) < 3 THEN Len(seq) ELSE 3)

\* An optional value: Python's None, or a value.
None == [set |-> FALSE, val |-> << >>]
Some(val) == [set |-> TRUE, val |-> val]

\* "not color" (None, or an empty list)
NotColor(color) == ~color.set \/ Len(color.val) = 0

\* "not alpha" (None, or 0.0); alpha is in hundredths
NotAlpha(alpha) == ~alpha.set \/ alpha.val = 0

\* _render_object, lines 831-834: the name of the material object used.
MaterialOf(view, src) ==
    IF view.Material # NoMaterial THEN view.Material
    ELSE IF src.Material \notin {"absent", NoMaterial} THEN src.Material
    ELSE NoMaterial

\* lines 837-841: the color a material gives.
MaterialColor(mat) ==
    IF mat.hasMaterialProp /\ mat.DiffuseColor # <<"absent">>
    THEN Some(FirstThree(SplitComma(mat.DiffuseColor)))
    ELSE None

\* lines 842-846: the alpha a material gives.
MaterialAlpha(mat) ==
    IF mat.hasMaterialProp /\ mat.Transparency # "absent"
    THEN IF Hundredths(mat.Transparency) > 0
         THEN Some(100 - Hundredths(mat.Transparency))
         ELSE Some(100)
    ELSE None

\* line 843: the exception float() raises for the material's transparency.
MaterialRaises(mat) ==
    IF mat.hasMaterialProp /\ mat.Transparency # "absent"
    THEN FloatRaises(mat.Transparency)
    ELSE NoExc

\* lines 848-852: the color after the source's view object is consulted.
DisplayColor(color, src, guiUp) ==
    IF guiUp /\ NotColor(color) /\ src.ShapeColor # <<"absent">>
    THEN Some(FirstThree(src.ShapeColor))
    ELSE color

\* lines 853-856: the alpha after the source's view object is consulted.
DisplayAlpha(alpha, src, guiUp) ==
    IF guiUp /\ NotAlpha(alpha) /\ src.Transparency > 0
    THEN Some(100 - src.Transparency)
    ELSE alpha

\* lines 857-858
FinalColor(color) == IF NotColor(color) THEN <<"1.0", "1.0", "1.0">> ELSE color.val

\* lines 859-860
FinalAlpha(alpha) == IF NotAlpha(alpha) THEN 100 ELSE alpha.val

\* _render_object, lines 827-860: the color and the alpha (in hundredths)
\* passed to write_object.
ObjectColor(matname, src, guiUp) ==
    FinalColor(DisplayColor(IF matname = NoMaterial THEN None
                            ELSE MaterialColor(MaterialObject(matname)),
                            src, guiUp))

ObjectAlpha(matname, src, guiUp) ==
    FinalAlpha(DisplayAlpha(IF matname = NoMaterial THEN None
                            ELSE MaterialAlpha(MaterialObject(matname)),
                            src, guiUp))

\* The exception raised while the color and the alpha are resolved.
ObjectColorRaises(matname) ==
    IF matname = NoMaterial THEN NoExc
    ELSE MaterialRaises(MaterialObject(matname))

\* _render_object without the assertions of lines 880-884: a fault that
\* serializes whatever mesh it has.
MeshUnchecked(src) == NoExc

\* _render_object, lines 862-883: why no valid mesh is found, or NoExc.
ObjectMeshRaises(src) ==
    IF src.hasGroup \/ src.TypeId \in {"Part::Feature", "Mesh::Feature"}
    THEN IF src.mesh = "valid" THEN NoExc ELSE AssertionError
    ELSE AssertionError

\* The first exception of a sequence of steps (NoExc: none raises).
RECURSIVE FirstRaised(_)
FirstRaised(excs) ==
    IF Len(excs) = 0 THEN NoExc
    ELSE IF Head(excs) # NoExc THEN Head(excs)
    ELSE FirstRaised(Tail(excs))

\* A step that raises exc, or else calls the module.
RaiseOrCall(exc, module, method, args) ==
    IF exc # NoExc THEN Raised(exc, << >>)
    ELSE CallRenderer(module, method, args)

\* RendererHandler._render_object, lines 821-889.
RenderObjectOf(module, name, matname, src, guiUp) ==
    RaiseOrCall(FirstRaised(<<ObjectColorRaises(matname), ObjectMeshRaises(src)>>),
                module, "write_object",
                <<name, "mesh", ObjectColor(matname, src, guiUp),
                  ObjectAlpha(matname, src, guiUp)>>)

RenderObject(module, name, view, guiUp) ==
    RenderObjectOf(module, name, MaterialOf(view, Deref(view.Source)),
                   Deref(view.Source), guiUp)

\* RendererHandler._render_camera, lines 891-912.
RenderCameraOf(module, name, cam) ==
    RaiseOrCall(FirstRaised(<<FloatRaises(cam.AspectRatio),
                              IF cam.Placement = "absent" THEN AttributeError
                              ELSE NoExc>>),
                module, "write_camera", <<name, "pos", "updir", "target">>)

RenderCamera(module, name, view) ==
    RenderCameraOf(module, name, Deref(view.Source))

\* RendererHandler._render_pointlight, lines 914-937.
RenderPointlightOf(module, name, src) ==
    RaiseOrCall(IF src.Location = "absent" \/ src.Color = "absent"
                THEN AttributeError ELSE NoExc,
                module, "write_pointlight",
                <<name, "location", "color",
                  IF src.Power = "absent" THEN "60" ELSE src.Power>>)

RenderPointlight(module, name, view) ==
    RenderPointlightOf(module, name, Deref(view.Source))

\* RendererHandler._render_arealight, lines 939-964.
RenderArealightOf(module, name, src) ==
    RaiseOrCall(FirstRaised(<<IF src.Placement = "absent" THEN AttributeError
                              ELSE NoExc,
                              IF src.Color = "absent" THEN AttributeError
                              ELSE NoExc,
                              FloatRaises(src.Power),
                              FloatRaises(src.SizeU),
                              FloatRaises(src.SizeV)>>),
                module, "write_arealight",
                <<name, "placement", src.SizeU, src.SizeV, "color", src.Power>>)

RenderArealight(module, name, view) ==
    RenderArealightOf(module, name, Deref(view.Source))

\* The except clause of get_rendering_string, line 810.
CaughtByDispatch == {AttributeError, TypeError, AssertionError}

\* get_rendering_string, lines 794-797: the type of the view's object.
ObjType(source) ==
    IF source = NoSource THEN "Object"
    ELSE IF Deref(source).ptype = "absent" THEN "Object"
    ELSE Deref(source).ptype

\* get_rendering_string with the entries of Camera and PointLight exchanged
\* in the switcher: a fault.
SwitcherExchanged(module, objtype, name, view, guiUp) ==
    CASE objtype = "Object" -> RenderObject(module, name, view, guiUp)
      [] objtype = "PointLight" -> RenderCamera(module, name, view)
      [] objtype = "Camera" -> RenderPointlight(module, name, view)
      [] objtype = "AreaLight" -> RenderArealight(module, name, view)
      [] OTHER -> Raised(KeyError, << >>)

\* get_rendering_string, lines 799-808: the specialized method is looked up
\* and called.
Switcher(module, objtype, name, view, guiUp) ==
    CASE objtype = "Object" -> RenderObject(module, name, view, guiUp)
      [] objtype = "PointLight" -> RenderPointlight(module, name, view)
      [] objtype = "Camera" -> RenderCamera(module, name, view)
      [] objtype = "AreaLight" -> RenderArealight(module, name, view)
      [] OTHER -> Raised(KeyError, << >>)

\* get_rendering_string, lines 810-819: what is caught is printed as a
\* warning that names the view, and the empty string is returned.
Caught(res, view) ==
    IF res.raised \in CaughtByDispatch
    THEN [raised |-> NoExc, text |-> << >>, calls |-> res.calls,
          warnings |-> <<view.Label>>]
    ELSE res

\* RendererHandler.get_rendering_string, lines 778-819.
GetRenderingString(module, view, guiUp) ==
    Caught(IF view.Source = NoSource THEN Raised(AttributeError, << >>)
           ELSE Switcher(module, ObjType(view.Source), Deref(view.Source).Name,
                         view, guiUp),
           view)

(***************************************************************************)
(* The state.                                                              *)
(***************************************************************************)
VARIABLES
    GuiUp,          \* App.GuiUp
    Renderer,       \* the project's Renderer property
    Template,       \* the project's Template property and the file it names
    DelayedBuild,   \* the project's DelayedBuild property
    GroundPlane,    \* the project's GroundPlane property
    props,          \* OutputImage, RenderWidth, RenderHeight, OpenAfterRender
    prefs,          \* the user parameters of the Render workbench
    env,            \* what writing a file and opening an image raise, and
                    \* the exit status of the command of the renderer
    PageResult,     \* the project's PageResult property
    Group,          \* container node -> its members, in document order
    Source,         \* view node -> the name of its Source
    Material,       \* view node -> the name of its Material
    ViewResult,     \* view node -> its ViewResult property
    touched,        \* the views the next recompute executes
    docObjects,     \* the temporary objects present in the document
    tempFiles,      \* the temporary files that exist
    last,           \* what the last operation did
    argv,           \* the arguments of a function applied on its own
    retv            \* the value that function returned

vars == <<GuiUp, Renderer, Template, DelayedBuild, GroundPlane, props, prefs,
          env, PageResult, Group, Source, Material, ViewResult, touched, docObjects,
          tempFiles, last, argv, retv>>

(***************************************************************************)
(* The scene: the project's Group tree.  Node 0 is the project; group maps *)
(* each container (the project, a nested App::DocumentObjectGroup) to the  *)
(* sequence of its members in document order; every other node is a view.  *)
(***************************************************************************)
ProjectNode == 0

\* The elements of a set of numbers, in ascending order.
RECURSIVE SortedSeq(_)
SortedSeq(S) ==
    IF S = {} THEN << >>
    ELSE LET m == CHOOSE a \in S : \A b \in S : a <= b
         IN  <<m>> \o SortedSeq(S \ {m})

\* all_group_objs without the recursion into subgroups: a fault that lists
\* the members of the group as they are.
GroupMembers(group, g) == group[g]

\* Project.all_views, lines 355-368: all_group_objs(group).
RECURSIVE AllGroupObjs(_, _)
AllGroupObjs(group, g) ==
    LET RECURSIVE Extend(_)
        Extend(objs) ==
            IF Len(objs) = 0 THEN << >>
            ELSE (IF Head(objs) \notin DOMAIN group
                  THEN <<Head(objs)>>
                  ELSE AllGroupObjs(group, Head(objs))) \o Extend(Tail(objs))
    IN  Extend(group[g])

AllViews(group) == AllGroupObjs(group, ProjectNode)

SeqToSet(seq) == {seq[i] : i \in 1..Len(seq)}

\* Project.create, line 262: the Label of the project, "%s Project" of the
\* renderer it was created for, as its words and the space between them.
ProjectLabel == <<Renderer, " ", "Project">>

\* str.replace(" ", ""), line 609: the label without its spaces, as one
\* string.
RECURSIVE RemoveSpaces(_)
RemoveSpaces(label) ==
    IF Len(label) = 0 THEN ""
    ELSE (IF Head(label) = " " THEN "" ELSE Head(label))
            \o RemoveSpaces(Tail(label))

\* View.view_label, lines 599-611.
ViewLabel(obj_label, proj_label) == obj_label \o "@" \o RemoveSpaces(proj_label)

\* The Label of the container that holds node k: that of the project; for
\* the group of node g, which add_to_group made for a source group labelled
\* "G" and the number of the node, View.view_label of that source group and
\* of the container of the group (lines 338-341).
RECURSIVE ContainerLabel(_, _)
ContainerLabel(k, group) ==
    IF \E i \in 1..Len(group[ProjectNode]) : group[ProjectNode][i] = k
    THEN ProjectLabel
    ELSE <<ViewLabel("G" \o ToString(CHOOSE g \in DOMAIN group :
                                        k \in SeqToSet(group[g])),
                     ContainerLabel(CHOOSE g \in DOMAIN group :
                                        k \in SeqToSet(group[g]),
                                    group))>>

\* The view object of node k, with the Label View.create assigned (line
\* 637): View.view_label of the source (whose Label is its Name; "Removed"
\* for a view whose source is gone) and of the container of the view.
ViewOf(k, group, source, material) ==
    [Label |-> ViewLabel(IF source[k] = NoSource THEN "Removed" ELSE source[k],
                         ContainerLabel(k, group)),
     Source |-> source[k], Material |-> material[k]]

\* The default camera view of Project.render, lines 405-413.
DefaultCameraView ==
    [Label |-> ViewLabel("Default_Camera", ProjectLabel),
     Source |-> "Default_Camera", Material |-> NoMaterial]

\* The temporary view of write_groundplane, lines 302-305, when n pairs of
\* temporary objects are in the document already.
GroundPlaneView(n) ==
    [Label |-> DummyName("dummygroundplane2", n),
     Source |-> DummyName("dummygroundplane1", n),
     Material |-> NoMaterial]

Event(ev, arg) == [ev |-> ev, arg |-> arg]

\* The events of one call of get_rendering_string: the dispatch, the module
\* functions entered, the warnings.
RECURSIVE EventsOf(_, _)
EventsOf(ev, args) ==
    IF Len(args) = 0 THEN << >>
    ELSE <<Event(ev, Head(args))>> \o EventsOf(ev, Tail(args))

CallNames(calls) == [i \in 1..Len(calls) |-> calls[i].fn]

DispatchEvents(view, res) ==
    <<Event("dispatch", view.Label)>> \o EventsOf("call", CallNames(res.calls))
        \o EventsOf("warning", res.warnings)

\* v.Source.ViewObject.Visibility, line 423: the exception it raises (the
\* Source link is unset, or the source has no view object because the GUI
\* is not up), or NoExc.
VisibilityRaises(view, guiUp) ==
    IF view.Source = NoSource \/ ~guiUp THEN AttributeError ELSE NoExc

\* The result of the list comprehension of lines 422-423: the exception
\* that left it, the strings, the views they are the strings of, the events
\* and the calls of the module.
NoStrings(raised, trace, calls) ==
    [raised |-> raised, strings |-> << >>, used |-> << >>, trace |-> trace,
     calls |-> calls]

\* get_rdr_string(v) has returned res for view k; rest: the views after it.
WithString(k, view, res, rest) ==
    IF res.raised # NoExc
    THEN NoStrings(res.raised, DispatchEvents(view, res), res.calls)
    ELSE [rest EXCEPT !.strings = <<res.text>> \o @,
                      !.used = <<k>> \o @,
                      !.trace = DispatchEvents(view, res) \o @,
                      !.calls = res.calls \o @]

\* attrgetter("ViewResult")(v)
WithViewResult(k, text, rest) ==
    [rest EXCEPT !.strings = <<text>> \o @, !.used = <<k>> \o @]

\* The list comprehension with get_rdr_string bound to the dispatcher
\* whatever DelayedBuild is: a fault that never reads ViewResult.
ObjStringDispatching(module, k, view, cache, delayed, guiUp, rest) ==
    IF VisibilityRaises(view, guiUp) # NoExc
    THEN NoStrings(VisibilityRaises(view, guiUp), << >>, << >>)
    ELSE IF ~Deref(view.Source).Visibility THEN rest
    ELSE WithString(k, view, GetRenderingString(module, view, guiUp), rest)

\* The list comprehension without its filter: a fault that takes the views
\* whose source is not visible too.
ObjStringUnfiltered(module, k, view, cache, delayed, guiUp, rest) ==
    IF VisibilityRaises(view, guiUp) # NoExc
    THEN NoStrings(VisibilityRaises(view, guiUp), << >>, << >>)
    ELSE IF ~delayed THEN WithViewResult(k, cache[k], rest)
    ELSE WithString(k, view, GetRenderingString(module, view, guiUp), rest)

\* One view of the list comprehension: the filter, then get_rdr_string.
ObjString(module, k, view, cache, delayed, guiUp, rest) ==
    IF VisibilityRaises(view, guiUp) # NoExc
    THEN NoStrings(VisibilityRaises(view, guiUp), << >>, << >>)
    ELSE IF ~Deref(view.Source).Visibility THEN rest
    ELSE IF ~delayed THEN WithViewResult(k, cache[k], rest)
    ELSE WithString(k, view, GetRenderingString(module, view, guiUp), rest)

\* Project.render, lines 419-423: the list comprehension over the views, from
\* the i-th on.  delayed: obj.DelayedBuild; cache: the views' ViewResult.
RECURSIVE ObjStrings(_, _, _, _, _, _, _, _, _)
ObjStrings(module, views, i, group, source, material, cache, delayed, guiUp) ==
    IF i > Len(views) THEN NoStrings(NoExc, << >>, << >>)
    ELSE ObjString(module, views[i], ViewOf(views[i], group, source, material), cache,
                   delayed, guiUp,
                   ObjStrings(module, views, i + 1, group, source, material, cache,
                              delayed, guiUp))

\* View.execute, line 596: obj.ViewResult = renderer.get_rendering_string(obj).
\* An exception that leaves execute is reported by the document and does not
\* leave recompute; the property is then not written.
Executed(old, view, res) ==
    [result |-> IF res.raised = NoExc THEN res.text ELSE old,
     trace |-> DispatchEvents(view, res)]

\* View.execute, lines 579-596, for the view of node k of the project: the
\* new ViewResult and the events.
Execute(k, rdrname, group, source, material, cache, delayed, guiUp) ==
    IF delayed THEN [result |-> cache[k], trace |-> << >>]
    ELSE IF rdrname \notin InstalledRenderers
    THEN [result |-> cache[k],
          trace |-> <<Event("PrintError", "Import Error: Renderer not found")>>]
    ELSE Executed(cache[k], ViewOf(k, group, source, material),
                  GetRenderingString(RendererModule(rdrname),
                                     ViewOf(k, group, source, material), guiUp))

\* Document.recompute: execute has been called for view k, after the views
\* whose results are in rec.
RecomputeNext(rec, k, ex) ==
    [rec EXCEPT !.cache = [@ EXCEPT ![k] = ex.result],
                !.trace = @ \o ex.trace]

\* Document.recompute: execute is called for each touched view, in turn.
\* rec: the ViewResults and the events so far.
RECURSIVE RecomputeViews(_, _, _, _, _, _, _, _)
RecomputeViews(todo, rdrname, group, source, material, rec, delayed, guiUp) ==
    IF Len(todo) = 0 THEN rec
    ELSE RecomputeViews(Tail(todo), rdrname, group, source, material,
                        RecomputeNext(rec, Head(todo),
                                      Execute(Head(todo), rdrname, group, source,
                                              material, rec.cache, delayed,
                                              guiUp)),
                        delayed, guiUp)

Path(base, ext) == [base |-> base, ext |-> ext]
NoPath == Path("", "")

\* os.path.splitext(path)[0] + ".png"
PngPath(path) == Path(path.base, ".png")

Views == DOMAIN Source

\* Document.recompute() in the state given by cache and todo (the touched
\* views): the new ViewResults and the events.
Recomputed(r) == [r EXCEPT !.trace = <<Event("recompute", "")>> \o @]

Recompute(todo, cache) ==
    Recomputed(RecomputeViews(SortedSeq(todo), Renderer, Group, Source, Material,
                              [cache |-> cache, trace |-> << >>], DelayedBuild,
                              GuiUp))

\* What write_groundplane did: the exception that left it, the string
\* returned, its events and calls, and the document it leaves.
Groundplane(raised, text, trace, calls, cache, tch, objs) ==
    [raised |-> raised, text |-> text, trace |-> trace, calls |-> calls,
     cache |-> cache, touched |-> tch, docObjects |-> objs]

Min(S) == CHOOSE a \in S : \A b \in S : a <= b

Max(S) == CHOOSE a \in S : \A b \in S : a >= b

\* BoundBox.add over a set of boxes that is not empty: their union.
UnionBox(boxes) ==
    BoundBox(Min({b.XMin : b \in boxes}), Max({b.XMax : b \in boxes}),
             Min({b.YMin : b \in boxes}), Max({b.YMax : b \in boxes}),
             Min({b.ZMin : b \in boxes}), Max({b.ZMax : b \in boxes}))

\* The square root of n, rounded down (exact for the boxes explored).
Sqrt(n) == CHOOSE r \in 0..n : r * r <= n /\ n < (r + 1) * (r + 1)

\* BoundBox.DiagonalLength
DiagonalLength(b) ==
    Sqrt((b.XMax - b.XMin) * (b.XMax - b.XMin)
            + (b.YMax - b.YMin) * (b.YMax - b.YMin)
            + (b.ZMax - b.ZMin) * (b.ZMax - b.ZMin))

\* A point, in half units of length (the margin is half a diagonal).
Vector(x, y, z) == [x |-> x, y |-> y, z |-> z]

\* write_groundplane, lines 293-298: the closed polyline around the box b,
\* at a margin of half its diagonal, at height 0.
GroundPolyline(b, diagonal) ==
    <<Vector(2 * b.XMin - diagonal, 2 * b.YMin - diagonal, 0),
      Vector(2 * b.XMax + diagonal, 2 * b.YMin - diagonal, 0),
      Vector(2 * b.XMax + diagonal, 2 * b.YMax + diagonal, 0),
      Vector(2 * b.XMin - diagonal, 2 * b.YMax + diagonal, 0),
      Vector(2 * b.XMin - diagonal, 2 * b.YMin - diagonal, 0)>>

\* write_groundplane, lines 285-290: bbox.add(view.Source.Shape.BoundBox)
\* succeeds for member k of the project's Group.
AddsBoundBox(k) ==
    /\ k \in Views
    /\ Source[k] # NoSource
    /\ Deref(Source[k]).hasShape

IsValidBoundBox ==
    \E i \in 1..Len(Group[ProjectNode]) : AddsBoundBox(Group[ProjectNode][i])

\* write_groundplane, lines 284-290: the boxes that are added to bbox.
GroundBoxes ==
    {Deref(Source[k]).BoundBox :
        k \in {m \in SeqToSet(Group[ProjectNode]) : AddsBoundBox(m)}}

\* write_groundplane, lines 291-299: the vertices of the ground plane (none
\* when bbox is not valid).
GroundVertices ==
    IF IsValidBoundBox
    THEN GroundPolyline(UnionBox(GroundBoxes), DiagonalLength(UnionBox(GroundBoxes)))
    ELSE << >>

\* The pairs of temporary objects that earlier calls of write_groundplane
\* have left in the document.
LeftOver == Cardinality(docObjects) \div 2

\* write_groundplane, lines 300-304: the temporary objects are added.
GroundplaneAdded(n) ==
    <<Event("addObject", DummyName("dummygroundplane1", n)),
      Event("addObject", DummyName("dummygroundplane2", n))>>

\* write_groundplane, lines 306-315: the document is recomputed, the
\* temporary view is dispatched and the temporary objects are removed.
GroundplaneDispatched(n, rec, res) ==
    IF res.raised # NoExc
    THEN Groundplane(res.raised, << >>,
                     GroundplaneAdded(n) \o rec.trace
                        \o DispatchEvents(GroundPlaneView(n), res),
                     res.calls, rec.cache, {},
                     docObjects \cup {DummyName("dummygroundplane1", n),
                                      DummyName("dummygroundplane2", n)})
    ELSE Groundplane(NoExc, res.text,
                     GroundplaneAdded(n) \o rec.trace
                        \o DispatchEvents(GroundPlaneView(n), res)
                        \o <<Event("removeObject", DummyName("dummygroundplane2", n)),
                             Event("removeObject", DummyName("dummygroundplane1", n)),
                             Event("recompute", "")>>,
                     res.calls, rec.cache, {}, docObjects)

\* Project.write_groundplane, lines 282-315.  Line 305: without the GUI
\* dummy2.ViewObject is None, and ViewProviderView raises AttributeError
\* when it assigns its Proxy.
WriteGroundplane(module) ==
    IF ~IsValidBoundBox
    THEN Groundplane(NoExc, << >>, << >>, << >>, ViewResult, touched, docObjects)
    ELSE IF ~GuiUp
    THEN Groundplane(AttributeError, << >>, GroundplaneAdded(LeftOver), << >>,
                     ViewResult, touched,
                     docObjects \cup {DummyName("dummygroundplane1", LeftOver),
                                      DummyName("dummygroundplane2", LeftOver)})
    ELSE GroundplaneDispatched(LeftOver, Recompute(touched, ViewResult),
                               GetRenderingString(module,
                                                  GroundPlaneView(LeftOver),
                                                  GuiUp))

\* The characters of "{}".format(n) for an integer n.
DigitChars == <<"0", "1", "2", "3", "4", "5", "6", "7", "8", "9">>

IsDigit(c) == c \in {DigitChars[i] : i \in 1..10}

RECURSIVE Numeral(_)
Numeral(n) ==
    IF n < 0 THEN <<"-">> \o Numeral(0 - n)
    ELSE IF n < 10 THEN <<DigitChars[n + 1]>>
    ELSE Numeral(n \div 10) \o <<DigitChars[(n % 10) + 1]>>

\* sub in s, for texts given as the sequences of their characters.
HasSubstring(s, sub) ==
    \E i \in 1..(Len(s) - Len(sub) + 1) : SubSeq(s, i, i + Len(sub) - 1) = sub

\* The position after the digits that begin at position i of s.
RECURSIVE DigitsEnd(_, _)
DigitsEnd(s, i) ==
    IF i <= Len(s) /\ IsDigit(s[i]) THEN DigitsEnd(s, i + 1) ELSE i

\* re.sub(r"\+L[0-9]+", repl, s) for a letter L, from position i of s on.
RECURSIVE ReSubFlag(_, _, _, _)
ReSubFlag(s, letter, repl, i) ==
    IF i > Len(s) THEN << >>
    ELSE IF i + 2 <= Len(s) /\ s[i] = "+" /\ s[i + 1] = letter /\ IsDigit(s[i + 2])
    THEN repl \o ReSubFlag(s, letter, repl, DigitsEnd(s, i + 2))
    ELSE <<s[i]>> \o ReSubFlag(s, letter, repl, i + 1)

\* render of src/renderers/Povray.py, lines 197-204: the flag of the width
\* (letter W) or of the height (letter H) is replaced in, or added to, args.
SizeFlag(args, letter, size) ==
    IF HasSubstring(args, <<"+", letter>>)
    THEN ReSubFlag(args, letter, <<"+", letter>> \o Numeral(size), 1)
    ELSE args \o <<"+", letter>> \o Numeral(size) \o <<" ">>

\* The text of a path, as one element of a command.
PathText(path) == path.base \o path.ext

\* render of src/renderers/Povray.py, lines 183-208: the command, as the
\* sequence of the characters of the configured parameters and of the flags,
\* with the prefix, the executable and each path as one element.
PovrayCommand(pageResult, output, width, height) ==
    (IF prefs.Prefix # "" THEN <<prefs.Prefix, " ">> ELSE << >>)
        \o <<prefs.PovRayPath, " ">>
        \o SizeFlag(SizeFlag(IF prefs.PovRayParameters # << >>
                             THEN prefs.PovRayParameters \o <<" ">>
                             ELSE << >>,
                             "W", width),
                    "H", height)
        \o (IF output # NoPath THEN <<"+", "O", PathText(output), " ">>
            ELSE << >>)
        \o <<PathText(pageResult)>>

\* A render of Povray that returns no image when the command failed: a
\* fault.
PovrayRenderChecked(pageResult, output, width, height) ==
    IF prefs.PovRayPath = ""
    THEN [result |-> NoPath, cmd |-> << >>,
          trace |-> <<Event("PrintError", "Unable to locate renderer executable")>>]
    ELSE [result |-> IF env.status # 0 THEN NoPath
                     ELSE IF output # NoPath THEN output
                     ELSE PngPath(pageResult),
          cmd |-> PovrayCommand(pageResult, output, width, height),
          trace |-> <<Event("os.system", "povray")>>]

\* render of src/renderers/Povray.py, lines 181-212: the path returned, the
\* command run (if one is) and the events.  The exit status of the command,
\* env.status, is not read.
PovrayRender(pageResult, output, width, height) ==
    IF prefs.PovRayPath = ""
    THEN [result |-> NoPath, cmd |-> << >>,
          trace |-> <<Event("PrintError", "Unable to locate renderer executable")>>]
    ELSE [result |-> IF output # NoPath THEN output ELSE PngPath(pageResult),
          cmd |-> PovrayCommand(pageResult, output, width, height),
          trace |-> <<Event("os.system", "povray")>>]

\* RendererHandler.render, lines 718-740.
HandlerRender(rdrname, pageResult, output, width, height) ==
    LET r == IF rdrname = "Povray"
             THEN PovrayRender(pageResult, output, width, height)
             ELSE [result |-> output, cmd |-> << >>, trace |-> << >>]
    IN  [result |-> r.result, cmd |-> r.cmd,
         trace |-> <<Event("backend_render", rdrname)>> \o r.trace]

\* The arguments of the backend's render that come from the properties.
Params(output, width, height) ==
    [output |-> output, width |-> width, height |-> height]

\* What an operation did: the exception that left it, the value returned,
\* its events in order, the strings it built, and the state it leaves.
Outcome(op, raised, result, trace, cam, objstrings, used, merged, calls, cache, tch, page, objs, files) ==
    [op |-> op, raised |-> raised, result |-> result, trace |-> trace,
     cam |-> cam, objstrings |-> objstrings, used |-> used, merged |-> merged,
     calls |-> calls, cache |-> cache, touched |-> tch, PageResult |-> page,
     docObjects |-> objs, tempFiles |-> files, ground |-> << >>,
     params |-> Params(NoPath, 0, 0), handles |-> {}, cmd |-> << >>, img |-> NoPath,
     fpath |-> [path |-> NoPath, serial |-> 0]]

\* An operation that ends, by return or by exception, before the merge.
Ended(raised, trace, calls, cache, tch, objs) ==
    Outcome("render", raised, NoPath, trace, << >>, << >>, << >>, << >>, calls,
            cache, tch, PageResult, objs, tempFiles)

\* mkstemp(prefix=obj.Name, suffix=os.path.splitext(obj.Template)[-1]): the
\* name of the file, without its random part.  obj.Name is the name that
\* Project.create asked for, "%sProject" of the renderer (lines 259-260).
TempPath == Path("/tmp/" \o Renderer \o "Project", Template.path.ext)

\* The file mkstemp creates, line 442: a new file, whatever files exist.
\* Its name is TempPath and a random part, for which the number stands.
TempFile == [path |-> TempPath, serial |-> Cardinality(tempFiles) + 1]

\* Project.render, lines 479-481: ImageGui.open is entered (a module that
\* was not imported is a NameError, an absent property an AttributeError).
ImageOpened(img) ==
    /\ img # NoPath
    /\ "OpenAfterRender" \notin props.absent
    /\ props.OpenAfterRender
    /\ prefs.ImageGui

\* The value of an integer property: an integer, None, or a string that is
\* not a numeral.
Value(kind, val) == [kind |-> kind, val |-> val]

\* What int(value) raises.
IntRaises(value) ==
    CASE value.kind = "int" -> NoExc
      [] value.kind = "None" -> TypeError
      [] value.kind = "text" -> ValueError

\* Project.render, lines 453-486: the parameters are fetched, the renderer
\* is run and the image is opened.  r: what has been done so far.
RenderRun(r, run) ==
    IF ImageOpened(run.result) /\ env.open \notin {NoExc, AttributeError, NameError}
    THEN [r EXCEPT !.raised = env.open,
                   !.cmd = run.cmd,
                   !.img = run.result,
                   !.trace = @ \o run.trace \o <<Event("ImageGui.open", "img")>>]
    ELSE [r EXCEPT !.result = run.result,
                   !.cmd = run.cmd,
                   !.img = run.result,
                   !.trace = @ \o run.trace
                       \o (IF ImageOpened(run.result)
                           THEN <<Event("ImageGui.open", "img")>> ELSE << >>)]

\* Project.render, lines 459-463.
OutputPath(page) ==
    IF "OutputImage" \in props.absent \/ props.OutputImage = NoPath
    THEN PngPath(page)
    ELSE props.OutputImage

\* A render that passes the integer properties on as they are, when present.
IntParamUnchecked(name, default) ==
    IF name \in props.absent THEN default ELSE props[name].val

\* Project.render, lines 465-473: int(value), or the default when the
\* property is absent (AttributeError), is a string that is no numeral
\* (ValueError) or is None (TypeError).
IntParam(name, default) ==
    IF name \in props.absent \/ IntRaises(props[name]) # NoExc
    THEN default
    ELSE props[name].val

\* A render that removes the temporary file before it records PageResult.
RenderWriteRemovingFirst(r, rec) ==
    RenderRun([r EXCEPT !.trace = @ \o <<Event("mkstemp", Template.path.ext),
                                         Event("write", "template"),
                                         Event("close", "fhandle"),
                                         Event("remove", Template.path.ext),
                                         Event("PageResult", Template.path.ext)>>
                                       \o rec.trace,
                        !.PageResult = TempPath,
                        !.fpath = TempFile],
              HandlerRender(Renderer, TempPath, OutputPath(TempPath),
                            IntParam("RenderWidth", 800),
                            IntParam("RenderHeight", 600)))

\* Project.render, lines 441-451: the merged template is written to a
\* temporary file, recorded as PageResult, and the document is recomputed.
RenderWrite(r, rec) ==
    IF env.write # NoExc
    THEN [r EXCEPT !.raised = env.write,
                   !.trace = @ \o <<Event("mkstemp", Template.path.ext),
                                    Event("write", "template")>>,
                   !.tempFiles = @ \cup {TempFile},
                   !.fpath = TempFile,
                   !.handles = {"fhandle"}]
    ELSE RenderRun([r EXCEPT !.trace = @ \o <<Event("mkstemp", Template.path.ext),
                                              Event("write", "template"),
                                              Event("close", "fhandle"),
                                              Event("PageResult", Template.path.ext),
                                              Event("remove", Template.path.ext)>>
                                            \o rec.trace,
                             !.cache = rec.cache,
                             !.touched = {},
                             !.PageResult = TempPath,
                             !.fpath = TempFile,
                             !.params = Params(OutputPath(TempPath),
                                               IntParam("RenderWidth", 800),
                                               IntParam("RenderHeight", 600))],
                   HandlerRender(Renderer, TempPath, OutputPath(TempPath),
                                 IntParam("RenderWidth", 800),
                                 IntParam("RenderHeight", 600)))

\* Project.render, lines 429-439.
RenderMerge(r, merged) ==
    IF merged.err THEN [r EXCEPT !.raised = ReError]
    ELSE RenderWrite([r EXCEPT !.merged = merged.out],
                     Recompute(r.touched, r.cache))

\* Project.render, lines 425-427.
RenderGroundplane(r, gp) ==
    IF gp.raised # NoExc
    THEN [r EXCEPT !.raised = gp.raised, !.trace = @ \o gp.trace,
                   !.calls = @ \o gp.calls, !.cache = gp.cache,
                   !.touched = gp.touched, !.docObjects = gp.docObjects,
                   !.cam = << >>, !.objstrings = << >>, !.used = << >>]
    ELSE RenderMerge([r EXCEPT !.trace = @ \o gp.trace,
                               !.calls = @ \o gp.calls, !.cache = gp.cache,
                               !.touched = gp.touched,
                               !.docObjects = gp.docObjects,
                               !.ground = GroundVertices,
                               !.objstrings = Append(@, gp.text)],
                     MergeTemplate(Template.text, r.cam,
                                   Append(r.objstrings, gp.text)))

\* Project.render, lines 417-423.
RenderViews(module, r, objs) ==
    IF objs.raised # NoExc
    THEN [r EXCEPT !.raised = objs.raised, !.trace = @ \o objs.trace,
                   !.calls = @ \o objs.calls, !.cam = << >>]
    ELSE IF GroundPlane
    THEN RenderGroundplane([r EXCEPT !.trace = @ \o objs.trace,
                                     !.calls = @ \o objs.calls,
                                     !.objstrings = objs.strings,
                                     !.used = objs.used],
                           WriteGroundplane(module))
    ELSE RenderMerge([r EXCEPT !.trace = @ \o objs.trace,
                               !.calls = @ \o objs.calls,
                               !.objstrings = objs.strings,
                               !.used = objs.used],
                     MergeTemplate(Template.text, r.cam, objs.strings))

\* Project.render, lines 401-415.
RenderCam(module, r, camres) ==
    IF camres.raised # NoExc
    THEN [r EXCEPT !.raised = camres.raised,
                   !.trace = @ \o DispatchEvents(DefaultCameraView, camres),
                   !.calls = camres.calls]
    ELSE RenderViews(module,
                     [r EXCEPT !.trace = @ \o DispatchEvents(DefaultCameraView, camres),
                               !.calls = camres.calls,
                               !.cam = camres.text],
                     ObjStrings(module, AllViews(Group), 1, Group, Source, Material,
                                ViewResult, DelayedBuild, GuiUp))

\* Project.render, lines 403-404: the camera string of the default camera.
CamStr(guiUp) ==
    IF guiUp THEN "ActiveView.getCamera" ELSE "DEFAULT_CAMERA_STRING"

\* A render that takes the camera of the first Camera view of the scene, if
\* there is one, instead of the default camera: a fault.
RenderTemplateSceneCamera(module) ==
    RenderCam(module,
              Ended(NoExc, <<Event("read", "template"),
                             Event("camstr", CamStr(GuiUp))>>,
                    << >>, ViewResult, touched, docObjects),
              IF \E k \in DOMAIN Source : Source[k] = "Cam"
              THEN GetRenderingString(
                       module,
                       ViewOf(CHOOSE k \in DOMAIN Source : Source[k] = "Cam",
                              Group, Source, Material),
                       GuiUp)
              ELSE GetRenderingString(module, DefaultCameraView, GuiUp))

\* Project.render, lines 392-415: the template is read and the default
\* camera is built and dispatched.
RenderTemplate(module) ==
    RenderCam(module,
              Ended(NoExc, <<Event("read", "template"),
                             Event("camstr", CamStr(GuiUp))>>,
                    << >>, ViewResult, touched, docObjects),
              GetRenderingString(module, DefaultCameraView, GuiUp))

\* Project.render without the handler of ModuleNotFoundError of lines 384-390:
\* a fault that goes on with a renderer that was not found.
RenderWithoutImportCheck ==
    IF Template.path = NoPath \/ ~Template.exists
    THEN Ended(AssertionError, << >>, << >>, ViewResult, touched, docObjects)
    ELSE RenderTemplate(IF Renderer \in InstalledRenderers
                        THEN RendererModule(Renderer) ELSE StubModule)

\* Project.render without the assertion of line 393: a fault that goes on
\* with an empty template.
RenderWithoutTemplateCheck ==
    IF Renderer \notin InstalledRenderers
    THEN Ended(NoExc, <<Event("PrintError", "Import Error: Renderer not found"),
                        Event("PrintError", "Cannot render project: Renderer not found")>>,
               << >>, ViewResult, touched, docObjects)
    ELSE RenderTemplate(RendererModule(Renderer))

\* Project.render, lines 381-486.
ProjectRender ==
    IF Renderer \notin InstalledRenderers
    THEN \* lines 384-390 and RendererHandler.__init__, lines 710-716
         Ended(NoExc, <<Event("PrintError", "Import Error: Renderer not found"),
                        Event("PrintError", "Cannot render project: Renderer not found")>>,
               << >>, ViewResult, touched, docObjects)
    ELSE IF Template.path = NoPath \/ ~Template.exists
    THEN \* line 393
         Ended(AssertionError, << >>, << >>, ViewResult, touched, docObjects)
    ELSE RenderTemplate(RendererModule(Renderer))

\* ViewProviderProject.render, lines 549-555: an AttributeError that leaves
\* Project.render is printed, not raised; what Project.render returns is
\* dropped, and nothing is returned.
GuiRendered(o) ==
    [o EXCEPT !.op = "gui_render",
              !.result = NoPath,
              !.raised = IF @ = AttributeError THEN NoExc ELSE @,
              !.trace = IF o.raised = AttributeError
                        THEN Append(@, Event("PrintError", "Cannot render"))
                        ELSE @]

\* The state after an operation with outcome o.
Leaves(o) ==
    /\ last' = o
    /\ ViewResult' = o.cache
    /\ touched' = o.touched
    /\ PageResult' = o.PageResult
    /\ docObjects' = o.docObjects
    /\ tempFiles' = o.tempFiles
    /\ UNCHANGED <<GuiUp, Renderer, Template, DelayedBuild, GroundPlane, props,
                   prefs, env, Group, Source, Material, argv, retv>>

(***************************************************************************)
(* The operations.                                                         *)
(***************************************************************************)
\* The temporary objects and files an operation leaves are within the
\* bounds explored.
WithinBounds ==
    /\ Cardinality(docObjects') <= 2 * MaxLeftOver
    /\ Cardinality(tempFiles') <= MaxTempFiles

\* Project.render(), called from a script.
Render ==
    /\ Leaves(ProjectRender)
    /\ WithinBounds

\* ViewProviderProject.render, lines 549-555: the context menu's Render, of
\* the view provider that a project has when the GUI is up.
GuiRender ==
    /\ GuiUp
    /\ Leaves(GuiRendered(ProjectRender))
    /\ WithinBounds

\* Document.recompute() on its own.
DocRecomputed(rec) ==
    Outcome("recompute", NoExc, NoPath, rec.trace, << >>, << >>, << >>, << >>,
            << >>, rec.cache, {}, PageResult, docObjects, tempFiles)

\* The document is recomputed (by the user, or by a command).
DocRecompute ==
    /\ touched # {}
    /\ Leaves(DocRecomputed(Recompute(touched, ViewResult)))

\* The DelayedBuild property is set; Project.onChanged, lines 228-234.
SetDelayedBuild(value) ==
    /\ DelayedBuild' = value
    /\ touched' = IF ~value THEN touched \cup SeqToSet(AllViews(Group))
                  ELSE touched
    /\ last' = Outcome("set", NoExc, NoPath, << >>, << >>, << >>, << >>, << >>,
                       << >>, ViewResult, touched', PageResult, docObjects,
                       tempFiles)
    /\ UNCHANGED <<GuiUp, Renderer, Template, GroundPlane, props, prefs, env,
                   PageResult, Group, Source, Material, ViewResult, docObjects,
                   tempFiles, argv, retv>>

\* The GroundPlane property is set.
SetGroundPlane(value) ==
    /\ GroundPlane' = value
    /\ last' = Outcome("set", NoExc, NoPath, << >>, << >>, << >>, << >>, << >>,
                       << >>, ViewResult, touched, PageResult, docObjects,
                       tempFiles)
    /\ UNCHANGED <<GuiUp, Renderer, Template, DelayedBuild, props, prefs, env,
                   PageResult, Group, Source, Material, ViewResult, touched,
                   docObjects, tempFiles, argv, retv>>

\* Project.set_properties, lines 115-216, for a project that has the
\* properties Renderer, DelayedBuild, Template, PageResult, Group and
\* GroundPlane and lacks those of props.absent: each missing property is
\* added, RenderWidth and RenderHeight with the values 800 and 600, the
\* others with the default of their type; lines 207-215: when
\* OpenAfterRender is added, GroundPlane is assigned.
SetProperties ==
    [props |-> [OutputImage |-> IF "OutputImage" \in props.absent THEN NoPath
                                ELSE props.OutputImage,
                RenderWidth |-> IF "RenderWidth" \in props.absent
                                THEN Value("int", 800) ELSE props.RenderWidth,
                RenderHeight |-> IF "RenderHeight" \in props.absent
                                 THEN Value("int", 600) ELSE props.RenderHeight,
                OpenAfterRender |-> IF "OpenAfterRender" \in props.absent
                                    THEN FALSE ELSE props.OpenAfterRender,
                absent |-> {}],
     GroundPlane |-> IF "OpenAfterRender" \in props.absent THEN FALSE
                     ELSE GroundPlane]

\* Project.onDocumentRestored, lines 218-220: the document that holds the
\* project is opened.
DocumentRestored ==
    /\ props' = SetProperties.props
    /\ GroundPlane' = SetProperties.GroundPlane
    /\ last' = Outcome("restore", NoExc, NoPath, << >>, << >>, << >>, << >>,
                       << >>, << >>, ViewResult, touched, PageResult,
                       docObjects, tempFiles)
    /\ UNCHANGED <<GuiUp, Renderer, Template, DelayedBuild, prefs, env,
                   PageResult, Group, Source, Material, ViewResult, touched,
                   docObjects, tempFiles, argv, retv>>

(***************************************************************************)
(* The initial states: a project with its views, as left by Project.create *)
(* and View.create (every view is new, hence touched, and has an empty     *)
(* ViewResult).                                                            *)
(***************************************************************************)
\* The sources of the views of the scenes explored.
SceneSources ==
    {"Box", "Hidden", "NoPoints", "NoFacets", "NoNormals", "Sketch", "Lamp",
     "Panel", "Wide", "Strip", "Cam", "Sun", NoSource}

\* The sources of the scenes explored in every environment.
CoreSources == {"Box", "Hidden", "NoFacets", "Lamp", NoSource}

\* The group trees with n nodes below the project: kind[k] is "group" or the
\* Source of view k; a node is a member of the project or of an earlier
\* group, and the members of a container are in order of creation.
Trees(n, sources) ==
    {t \in [kind : [1..n -> {"group"} \cup sources], parent : [1..n -> 0..n]] :
        \A k \in 1..n :
            /\ t.parent[k] < k
            /\ t.parent[k] # ProjectNode => t.kind[t.parent[k]] = "group"}

GroupOf(t, n) ==
    [g \in {ProjectNode} \cup {k \in 1..n : t.kind[k] = "group"} |->
        SortedSeq({k \in 1..n : t.parent[k] = g})]

SourceOf(t, n) == [k \in {j \in 1..n : t.kind[j] # "group"} |-> t.kind[k]]

TemplatePath == Path("scene", ".pov")

\* The templates of the scenes explored.
SceneTemplates ==
    {<<"header", NL, CameraMarker, NL, ContentMarker, NL, "footer">>,
     <<"header", NL, ContentMarker>>}

TemplateStates ==
    {[path |-> NoPath, exists |-> FALSE, text |-> << >>],
     [path |-> TemplatePath, exists |-> FALSE, text |-> << >>]}
    \cup {[path |-> TemplatePath, exists |-> TRUE, text |-> t] :
            t \in SceneTemplates}

NoOutcome ==
    Outcome("none", NoExc, NoPath, << >>, << >>, << >>, << >>, << >>, << >>,
            << >>, {}, NoPath, {}, {})

\* Writing the file and opening the image succeed.
NoFailure == [write |-> NoExc, open |-> NoExc, status |-> 0]

InitProject ==
    /\ DelayedBuild = TRUE
    /\ GroundPlane = FALSE
    /\ props = [OutputImage |-> NoPath, RenderWidth |-> Value("int", 800),
                RenderHeight |-> Value("int", 600), OpenAfterRender |-> FALSE,
                absent |-> {}]
    /\ prefs = [Prefix |-> "", PovRayPath |-> "povray", PovRayParameters |-> << >>,
                ImageGui |-> TRUE]
    /\ env = NoFailure
    /\ PageResult = NoPath
    /\ docObjects = {}
    /\ tempFiles = {}
    /\ last = NoOutcome

InitScene(n, t) ==
    /\ Group = GroupOf(t, n)
    /\ Source = SourceOf(t, n)
    /\ Material = [k \in DOMAIN SourceOf(t, n) |-> NoMaterial]
    /\ ViewResult = [k \in DOMAIN SourceOf(t, n) |-> << >>]
    /\ touched = DOMAIN SourceOf(t, n)

\* The argument and the result of a function called on its own.
NoInput ==
    [op |-> "none", template |-> << >>, cam |-> << >>, objstrings |-> << >>,
     rdrname |-> "",
     view |-> [Label |-> "", Source |-> NoSource, Material |-> NoMaterial],
     guiUp |-> FALSE,
     objs |-> [n |-> 0, kind |-> << >>, parent |-> << >>],
     sel |-> << >>, doc |-> << >>]

NoOutput ==
    [done |-> FALSE, raised |-> NoExc, text |-> << >>, views |-> << >>,
     calls |-> << >>, warnings |-> << >>, trace |-> << >>]

\* Every environment (GUI or not, every renderer name, every state of the
\* template), scenes over the core sources.
Init ==
    /\ GuiUp \in BOOLEAN
    /\ Renderer \in {"Povray", "Stub", "Raising", "DoesNotExist"}
    /\ Template \in TemplateStates
    /\ InitProject
    /\ \E n \in 0..MaxNodes : \E t \in Trees(n, CoreSources) : InitScene(n, t)
    /\ argv = NoInput
    /\ retv = NoOutput

\* The template of the scenes explored with every source.
SceneTemplate ==
    [path |-> TemplatePath, exists |-> TRUE,
     text |-> <<"header", NL, CameraMarker, NL, ContentMarker, NL, "footer">>]

\* A project rendered by a module that follows the backend contract, scenes
\* of visible and invisible objects in deeper trees.
InitOrder ==
    /\ GuiUp = TRUE
    /\ Renderer = "Stub"
    /\ Template = SceneTemplate
    /\ InitProject
    /\ \E n \in 0..MaxOrderNodes : \E t \in Trees(n, {"Box", "Hidden"}) :
          InitScene(n, t)
    /\ argv = NoInput
    /\ retv = NoOutput

\* A project that can be rendered (GUI up, renderer installed, template
\* present), scenes over all the sources.
\* The scenes whose ground plane is explored: a backend that follows the
\* contract, and one that rejects objects.
InitGround ==
    /\ GuiUp = TRUE
    /\ Renderer \in {"Stub", "Rejecting"}
    /\ Template = SceneTemplate
    /\ InitProject
    /\ \E n \in 0..MaxNodes : \E t \in Trees(n, {"Box", "Hidden", "Lamp"}) :
          InitScene(n, t)
    /\ argv = NoInput
    /\ retv = NoOutput

\* The values of RenderWidth and RenderHeight explored.
IntValues(n) == {Value("int", n), Value("None", 0), Value("text", 0)}

\* The sets of properties an object may lack.
AbsentProps ==
    {{}, {"OutputImage", "OpenAfterRender"}, {"RenderWidth", "RenderHeight"}}

\* What writing the file and opening the image may do: both succeed, or one
\* of them fails.
Failures ==
    {NoFailure, [NoFailure EXCEPT !.write = OSError],
     [NoFailure EXCEPT !.open = OSError]}

\* The projects whose output is explored: one view of a box, every state of
\* the properties and parameters render reads after the merge, and every
\* outcome of writing the file and of opening the image.
InitOutput ==
    /\ GuiUp = TRUE
    /\ Renderer \in {"Stub", "Povray"}
    /\ Template = SceneTemplate
    /\ DelayedBuild = TRUE
    /\ GroundPlane = FALSE
    /\ props \in [OutputImage : {NoPath, Path("out", ".png")},
                  RenderWidth : IntValues(1024),
                  RenderHeight : IntValues(768),
                  OpenAfterRender : BOOLEAN,
                  absent : AbsentProps]
    /\ prefs \in [Prefix : {""}, PovRayPath : {"", "povray"},
                  PovRayParameters : {<< >>}, ImageGui : BOOLEAN]
    /\ Renderer = "Stub" => prefs.PovRayPath # ""
    /\ env \in Failures
    /\ PageResult = NoPath
    /\ docObjects = {}
    /\ tempFiles = {}
    /\ last = NoOutcome
    /\ \E t \in Trees(1, {"Box"}) : InitScene(1, t)
    /\ argv = NoInput
    /\ retv = NoOutput

\* The parameters configured for POV-Ray, as the sequences of their
\* characters: none; "+Q9"; "+W1024 +H768"; "+WT4" (the number of threads);
\* "-D +H768".
ParameterStrings ==
    {<< >>,
     <<"+", "Q", "9">>,
     <<"+", "W", "1", "0", "2", "4", " ", "+", "H", "7", "6", "8">>,
     <<"+", "W", "T", "4">>,
     <<"-", "D", " ", "+", "H", "7", "6", "8">>}

\* The projects rendered with POV-Ray: one view of a box, every state of the
\* parameters the module reads, and both outcomes of the command.
InitPovray ==
    /\ GuiUp = TRUE
    /\ Renderer = "Povray"
    /\ Template = SceneTemplate
    /\ DelayedBuild = TRUE
    /\ GroundPlane = FALSE
    /\ props \in [OutputImage : {NoPath, Path("out", ".png")},
                  RenderWidth : {Value("int", 640), Value("text", 0)},
                  RenderHeight : {Value("int", 480)},
                  OpenAfterRender : BOOLEAN,
                  absent : {{}}]
    /\ prefs \in [Prefix : {"", "nice"}, PovRayPath : {"", "povray"},
                  PovRayParameters : ParameterStrings, ImageGui : {TRUE}]
    /\ env \in {NoFailure, [NoFailure EXCEPT !.status = 1]}
    /\ PageResult = NoPath
    /\ docObjects = {}
    /\ tempFiles = {}
    /\ last = NoOutcome
    /\ \E t \in Trees(1, {"Box"}) : InitScene(1, t)
    /\ argv = NoInput
    /\ retv = NoOutput

\* The projects of a document that is opened: saved by any version of the
\* workbench, so that any of the properties added last may be missing.
InitRestore ==
    /\ GuiUp = TRUE
    /\ Renderer = "Stub"
    /\ Template = SceneTemplate
    /\ DelayedBuild \in BOOLEAN
    /\ GroundPlane \in BOOLEAN
    /\ props \in [OutputImage : {NoPath, Path("out", ".png")},
                  RenderWidth : {Value("int", 1024)},
                  RenderHeight : {Value("int", 768)},
                  OpenAfterRender : BOOLEAN,
                  absent : SUBSET {"OutputImage", "RenderWidth", "RenderHeight",
                                   "OpenAfterRender"}]
    /\ "OutputImage" \in props.absent => props.OutputImage = NoPath
    /\ "OpenAfterRender" \in props.absent => ~props.OpenAfterRender
    /\ prefs = [Prefix |-> "", PovRayPath |-> "povray",
                PovRayParameters |-> << >>, ImageGui |-> TRUE]
    /\ env = NoFailure
    /\ PageResult = NoPath
    /\ docObjects = {}
    /\ tempFiles = {}
    /\ last = NoOutcome
    /\ \E t \in Trees(1, {"Box"}) : InitScene(1, t)
    /\ argv = NoInput
    /\ retv = NoOutput

\* Scenes with and without cameras, rendered with or without the GUI by a
\* module that follows the backend contract.
InitCameras ==
    /\ GuiUp \in BOOLEAN
    /\ Renderer = "Stub"
    /\ Template = SceneTemplate
    /\ InitProject
    /\ \E n \in 0..MaxNodes : \E t \in Trees(n, {"Box", "Cam", "Hidden"}) :
          InitScene(n, t)
    /\ argv = NoInput
    /\ retv = NoOutput

InitScenes ==
    /\ GuiUp = TRUE
    /\ Renderer \in {"Stub", "Povray"}
    /\ Template = SceneTemplate
    /\ InitProject
    /\ \E n \in 0..MaxNodes : \E t \in Trees(n, SceneSources) : InitScene(n, t)
    /\ argv = NoInput
    /\ retv = NoOutput

\* A project at rest, for the functions called on their own.
InitIdle ==
    /\ GuiUp = TRUE
    /\ Renderer = "Stub"
    /\ Template = [path |-> TemplatePath, exists |-> TRUE,
                   text |-> <<"header", NL, ContentMarker>>]
    /\ InitProject

\* RendererHandler.is_renderable, lines 742-759.
IsRenderable(obj) ==
    \/ obj.TypeId \in {"Part::Feature", "Mesh::Feature"}
    \/ /\ obj.TypeId = "App::FeaturePython"
       /\ obj.ptype \in {"PointLight", "Camera", "AreaLight"}

\* The project tree while add_objects runs: the members of the containers,
\* the sources of the views, the number of the next node, the objects
\* warned about, the views touched and the exception that left it.
Tree(group, source, next, warnings, tch, raised) ==
    [Group |-> group, Source |-> source, next |-> next, warnings |-> warnings,
     touched |-> tch, raised |-> raised]

\* add_to_group, lines 336-342: a new group is added to the group `target`.
GroupAdded(st, target) ==
    [st EXCEPT !.Group = [@ EXCEPT ![target] = Append(@, st.next)]
                            @@ (st.next :> << >>),
               !.next = @ + 1]

\* View.create, lines 632-641: a view of the object `name` is added to the
\* group `target`; without the GUI its ViewObject is None, and the view
\* provider's constructor raises once the view is in the group.
ViewCreated(st, name, target, guiUp) ==
    [st EXCEPT !.Group = [@ EXCEPT ![target] = Append(@, st.next)],
               !.Source = @ @@ (st.next :> name),
               !.touched = @ \cup {st.next},
               !.next = @ + 1,
               !.raised = IF guiUp THEN NoExc ELSE AttributeError]

\* add_to_group, lines 330-350: the objects `objs` of the forest t are added
\* to the group `target`.
RECURSIVE AddToGroup(_, _, _, _, _)
AddToGroup(st, t, objs, target, guiUp) ==
    IF st.raised # NoExc \/ Len(objs) = 0 THEN st
    ELSE IF t.kind[Head(objs)] = "group"
    THEN AddToGroup(AddToGroup(GroupAdded(st, target), t,
                               GroupOf(t, t.n)[Head(objs)], st.next, guiUp),
                    t, Tail(objs), target, guiUp)
    ELSE IF IsRenderable(SourceObject(t.kind[Head(objs)]))
    THEN AddToGroup(ViewCreated(st, t.kind[Head(objs)], target, guiUp),
                    t, Tail(objs), target, guiUp)
    ELSE \* lines 345-350
         AddToGroup([st EXCEPT !.warnings = Append(@, t.kind[Head(objs)])],
                    t, Tail(objs), target, guiUp)

\* Project.add_objects, lines 317-353.
AddedObjects(t, guiUp) ==
    AddToGroup(Tree(Group, Source, Cardinality(DOMAIN Group \cup DOMAIN Source),
                    << >>, touched, NoExc),
               t, GroupOf(t, t.n)[ProjectNode], ProjectNode, guiUp)

\* The texts of at most n tokens of the set toks.
Texts(toks, n) == UNION {[1..m -> toks] : m \in 0..n}

\* The templates, camera strings and object strings of the merges explored.
MergeTemplates == Texts({"x", NL, CameraMarker, ContentMarker}, MaxTemplateLen)

MergeCams == Texts({"c", BS, ONE, ContentMarker}, MaxReplLen)

MergeObjStrings ==
    {<< >>, <<<<"o">>>>, <<<<"o">>, <<"p">>>>, <<<< >>, <<"o">>>>,
     <<<<BS, ONE>>>>, <<<<BS>>, <<"o">>>>}

\* The merge of Project.render is about to be applied to some strings.
InitMerge ==
    /\ InitIdle
    /\ InitScene(0, [kind |-> << >>, parent |-> << >>])
    /\ \E t \in MergeTemplates : \E c \in MergeCams : \E o \in MergeObjStrings :
          argv = [NoInput EXCEPT !.op = "merge", !.template = t, !.cam = c,
                                 !.objstrings = o]
    /\ retv = NoOutput

\* The views dispatched on their own.
DispatchViews ==
    {[Label |-> ViewLabel(IF s = NoSource THEN "Removed" ELSE s, ProjectLabel),
      Source |-> s, Material |-> m] :
        s \in SceneSources
                \cup {"Bulb", "Default_Camera", "dummygroundplane1", "Tinted",
                      "Ghost", "Coated"},
        m \in {NoMaterial, "Gold", "Glass", "Clear"}}

\* get_rendering_string is about to be called for some view of a project
\* created for some renderer.
InitDispatch ==
    /\ GuiUp = TRUE
    /\ Renderer \in InstalledRenderers
    /\ Template = [path |-> TemplatePath, exists |-> TRUE,
                   text |-> <<"header", NL, ContentMarker>>]
    /\ InitProject
    /\ InitScene(0, [kind |-> << >>, parent |-> << >>])
    /\ \E v \in DispatchViews : \E g \in BOOLEAN :
          argv = [NoInput EXCEPT !.op = "dispatch", !.view = v,
                                 !.rdrname = Renderer, !.guiUp = g]
    /\ retv = NoOutput

\* all_views is about to be called on some group tree.
InitTree ==
    /\ InitIdle
    /\ \E n \in 0..MaxTreeNodes : \E t \in Trees(n, {"Box"}) : InitScene(n, t)
    /\ argv = [NoInput EXCEPT !.op = "all_views"]
    /\ retv = NoOutput

\* The forests of at most MaxAddNodes objects passed to add_objects: groups,
\* two renderable objects and one that is not renderable.
AddedForests ==
    UNION {{[n |-> m, kind |-> t.kind, parent |-> t.parent] :
                t \in Trees(m, {"Box", "Lamp", "Sketch"})} : m \in 0..MaxAddNodes}

\* add_objects, or the command that calls it, is about to be run on a
\* project that holds at most a group and views of a box, with or without
\* the GUI.
InitAdd ==
    /\ GuiUp \in BOOLEAN
    /\ Renderer = "Stub"
    /\ Template = SceneTemplate
    /\ DelayedBuild \in BOOLEAN
    /\ GroundPlane = FALSE
    /\ props = [OutputImage |-> NoPath, RenderWidth |-> Value("int", 800),
                RenderHeight |-> Value("int", 600), OpenAfterRender |-> FALSE,
                absent |-> {}]
    /\ prefs = [Prefix |-> "", PovRayPath |-> "povray", PovRayParameters |-> << >>,
                ImageGui |-> TRUE]
    /\ env = NoFailure
    /\ PageResult = NoPath
    /\ docObjects = {}
    /\ tempFiles = {}
    /\ last = NoOutcome
    /\ \E n \in 0..2 : \E t \in Trees(n, {"Box"}) : InitScene(n, t)
    /\ \E t \in AddedForests :
          \/ argv = [NoInput EXCEPT !.op = "add_objects", !.objs = t]
          \/ \E sel \in {<< >>, <<"Project">>} : \E doc \in {<< >>, <<"Project">>} :
                argv = [NoInput EXCEPT !.op = "RenderViewCommand", !.objs = t,
                                       !.sel = sel, !.doc = doc]
    /\ retv = NoOutput

\* The function has returned (or raised): nothing else changes.
Returns(out) ==
    /\ ~retv.done
    /\ retv' = out
    /\ UNCHANGED <<GuiUp, Renderer, Template, DelayedBuild, GroundPlane, props,
                   prefs, env, PageResult, Group, Source, Material,
                   ViewResult, touched, docObjects, tempFiles, last, argv>>

Merged(m) ==
    [NoOutput EXCEPT !.done = TRUE,
                     !.raised = IF m.err THEN ReError ELSE NoExc,
                     !.text = IF m.err THEN << >> ELSE m.out]

\* Project.render, lines 429-437, on its own.
Merge ==
    /\ argv.op = "merge"
    /\ Returns(Merged(MergeTemplate(argv.template, argv.cam, argv.objstrings)))

Dispatched(res) ==
    [NoOutput EXCEPT !.done = TRUE, !.raised = res.raised, !.text = res.text,
                     !.calls = res.calls, !.warnings = res.warnings]

\* RendererHandler.get_rendering_string(view) on its own.
Dispatch ==
    /\ argv.op = "dispatch"
    /\ Returns(Dispatched(GetRenderingString(RendererModule(argv.rdrname),
                                             argv.view, argv.guiUp)))

\* Project.all_views() on its own.
ListViews ==
    /\ argv.op = "all_views"
    /\ Returns([NoOutput EXCEPT !.done = TRUE, !.views = AllViews(Group)])

\* The views as add_objects leaves them: a new view has an empty ViewResult
\* and is touched; nothing was printed but the warnings.
Added(st) ==
    [cache |-> [k \in DOMAIN st.Source |->
                    IF k \in DOMAIN ViewResult THEN ViewResult[k] ELSE << >>],
     trace |-> << >>, touched |-> st.touched]

\* The state after add_objects has made the tree st and left the views as
\* in rec (with what a recomputation that followed it has printed); the new
\* views have no material.
AddObjectsDone(st, rec) ==
    /\ ~retv.done
    /\ Group' = st.Group
    /\ Source' = st.Source
    /\ Material' = [k \in DOMAIN st.Source |->
                        IF k \in DOMAIN Material THEN Material[k] ELSE NoMaterial]
    /\ ViewResult' = rec.cache
    /\ touched' = rec.touched
    /\ retv' = [NoOutput EXCEPT !.done = TRUE, !.raised = st.raised,
                                !.warnings = st.warnings, !.trace = rec.trace]
    /\ UNCHANGED <<GuiUp, Renderer, Template, DelayedBuild, GroundPlane, props,
                   prefs, env, PageResult, docObjects, tempFiles, last, argv>>

\* Project.add_objects(objs) on its own.
AddObjects ==
    /\ argv.op = "add_objects"
    /\ AddObjectsDone(AddedObjects(argv.objs, GuiUp),
                      Added(AddedObjects(argv.objs, GuiUp)))

\* RenderViewCommand.Activated, lines 1062-1066: add_objects has made the
\* tree st; unless an exception has left it, the document is recomputed:
\* every touched view is executed and is touched no more.
ViewsAdded(st) ==
    IF st.raised # NoExc THEN Added(st)
    ELSE [Recomputed(RecomputeViews(
                        SortedSeq(st.touched), Renderer, st.Group, st.Source,
                        [k \in DOMAIN st.Source |->
                            IF k \in DOMAIN Material THEN Material[k]
                            ELSE NoMaterial],
                        Added(st), DelayedBuild, GuiUp))
            EXCEPT !.touched = {}]

\* RenderViewCommand.Activated, lines 1040-1066, with the selection argv.sel
\* and argv.objs (its projects and its other objects) in a document whose
\* objects are argv.doc: when neither the selection nor the document holds
\* a project (is_project, lines 762-776) an error is printed; otherwise the
\* objects are added to the project and the document is recomputed.
RenderViewCommand ==
    /\ argv.op = "RenderViewCommand"
    /\ IF "Project" \in SeqToSet(argv.sel) \cup SeqToSet(argv.doc)
       THEN AddObjectsDone(AddedObjects(argv.objs, GuiUp),
                           ViewsAdded(AddedObjects(argv.objs, GuiUp)))
       ELSE Returns([NoOutput EXCEPT
                        !.done = TRUE,
                        !.text = <<"Unable to find a valid project in selection or document">>])

\* "Renderer" in obj.PropertiesList, lines 1088 and 1093: of the objects of a
\* document, the project has the property; a view and a shape have not.
HasRenderer(obj) == obj = "Project"

\* RenderCommand.Activated, line 1096: project.Proxy.render() was entered;
\* the value it returns is dropped, and the command returns nothing.
ProxyRender(o) ==
    [o EXCEPT !.op = "command",
              !.result = NoPath,
              !.trace = <<Event("Proxy.render", "Project")>> \o @]

\* RenderCommand.Activated, lines 1081-1096, with the selection sel in a
\* document whose objects are doc.
Activated(sel, doc) ==
    IF \E i \in 1..Len(sel) : HasRenderer(sel[i])
    THEN \* lines 1086-1090: an object of the selection has a Renderer
         ProxyRender(ProjectRender)
    ELSE IF \E i \in 1..Len(doc) : HasRenderer(doc[i])
    THEN \* line 1094: return
         [Ended(NoExc, << >>, << >>, ViewResult, touched, docObjects)
            EXCEPT !.op = "command"]
    ELSE \* line 1096 with project None
         [Ended(AttributeError, << >>, << >>, ViewResult, touched, docObjects)
            EXCEPT !.op = "command"]

\* The Render command of the workbench is run.
RenderCommand ==
    /\ argv.op = "RenderCommand"
    /\ Leaves(Activated(argv.sel, argv.doc))

\* The objects a document holds, and the selections of at most two of them.
CommandObjects == {"Project", "View", "Box"}

Documents ==
    {<< >>} \cup {<<a>> : a \in CommandObjects}
            \cup {<<a, b>> : a \in CommandObjects, b \in CommandObjects \ {"Box"}}
            \cup {<<"Box", "View", "Project">>}

Selections(doc) ==
    {<< >>} \cup {<<doc[i]>> : i \in 1..Len(doc)}
            \cup {<<doc[i], doc[j]>> : i \in 1..Len(doc), j \in 1..Len(doc)}

\* The command is about to be run in a session with the GUI.
InitCommand ==
    /\ GuiUp = TRUE
    /\ Renderer \in {"Stub", "DoesNotExist"}
    /\ Template = SceneTemplate
    /\ InitProject
    /\ \E n \in 0..2 : \E t \in Trees(n, {"Box", "Hidden"}) : InitScene(n, t)
    /\ \E doc \in Documents : \E sel \in Selections(doc) :
          argv = [NoInput EXCEPT !.op = "RenderCommand", !.sel = sel, !.doc = doc]
    /\ retv = NoOutput

Next ==
    \/ Render
    \/ GuiRender
    \/ DocRecompute
    \/ \E value \in BOOLEAN : SetDelayedBuild(value)
    \/ \E value \in BOOLEAN : SetGroundPlane(value)

Spec == Init /\ [][Next]_vars

SpecScenes == InitScenes /\ [][Next]_vars

SpecOrder == InitOrder /\ [][Next]_vars

SpecGround == InitGround /\ [][Next]_vars

SpecOutput == InitOutput /\ [][Next]_vars

SpecPovray == InitPovray /\ [][Next]_vars

SpecCameras == InitCameras /\ [][Next]_vars

SpecRestore == InitRestore /\ [][Next \/ DocumentRestored]_vars

SpecAdd == InitAdd /\ [][AddObjects \/ RenderViewCommand]_vars

SpecCommand == InitCommand /\ [][RenderCommand]_vars

SpecMerge == InitMerge /\ [][Merge]_vars

SpecDispatch == InitDispatch /\ [][Dispatch]_vars

SpecTree == InitTree /\ [][ListViews]_vars

(***************************************************************************)
(* The properties checked.                                                 *)
(***************************************************************************)
RenderOps == {"render", "gui_render"}

\* The names of the events of a trace.
EventNames(trace) == {trace[i].ev : i \in 1..Len(trace)}

\* The positions of a trace where the view labelled `label` is dispatched.
DispatchesOf(trace, label) ==
    {i \in 1..Len(trace) : trace[i] = Event("dispatch", label)}

\* The views of the project dispatched in a trace.
DispatchedViews(trace) ==
    {k \in Views :
        DispatchesOf(trace, ViewOf(k, Group, Source, Material).Label) # {}}

\* The events of a render that has got past the template.
PipelineEvents ==
    {"read", "dispatch", "call", "mkstemp", "write", "PageResult",
     "backend_render", "os.system", "recompute"}

\* C1: when no adapter matches the project's renderer name, a render reports
\* the error and returns the empty path, and it has dispatched no view,
\* created and written no file, not assigned PageResult and not called the
\* backend's render, whatever the state of the template.
C1_RendererNotFound ==
    (last.op \in RenderOps /\ Renderer \notin InstalledRenderers) =>
        /\ last.raised = NoExc
        /\ last.result = NoPath
        /\ "PrintError" \in EventNames(last.trace)
        /\ EventNames(last.trace) \cap PipelineEvents = {}
        /\ last.calls = << >>
        /\ PageResult = NoPath
        /\ tempFiles = {}

\* A render of a scene with views and a present template, by a renderer
\* that does not exist.
C1_Witness ==
    /\ last.op = "render"
    /\ Renderer = "DoesNotExist"
    /\ Template.exists
    /\ Views # {}

\* C2: when the renderer is found but the template path is empty or names no
\* file, a render raises AssertionError to its caller (the context menu's
\* handler included), having dispatched no view, created no file, not
\* assigned PageResult and not called the backend's render.
C2_TemplateMissing ==
    (/\ last.op \in RenderOps
     /\ Renderer \in InstalledRenderers
     /\ (Template.path = NoPath \/ ~Template.exists)) =>
        /\ last.raised = AssertionError
        /\ last.result = NoPath
        /\ EventNames(last.trace) \cap PipelineEvents = {}
        /\ last.calls = << >>
        /\ PageResult = NoPath
        /\ tempFiles = {}

\* A render from the context menu of a scene with views, whose template
\* path names a file that does not exist.
C2_Witness ==
    /\ last.op = "gui_render"
    /\ last.raised = AssertionError
    /\ Renderer = "Povray"
    /\ Template.path # NoPath
    /\ ~Template.exists
    /\ Views # {}

\* Event i of the trace is a dispatch that a recompute of the document made.
InRecompute(trace, i) == \E j \in 1..(i - 1) : trace[j].ev = "recompute"

\* C3 (amended): in a render that collects the strings of the views, if
\* DelayedBuild is true the string of each visible view is what the
\* dispatcher returns for it in that call, whatever its ViewResult; if
\* DelayedBuild is false the string of each visible view is its ViewResult
\* as stored when the render began and the collection does not dispatch,
\* but the recomputes of the document that the render makes dispatch every
\* touched view.
C3_DelayedBuild ==
    [][last'.op \in RenderOps =>
        /\ \A i \in 1..Len(last'.used) :
              IF DelayedBuild
              THEN /\ last'.objstrings[i]
                        = GetRenderingString(RendererModule(Renderer),
                                             ViewOf(last'.used[i], Group, Source, Material),
                                             GuiUp).text
                   /\ last'.used[i] \in DispatchedViews(last'.trace)
              ELSE last'.objstrings[i] = ViewResult[last'.used[i]]
        /\ ~DelayedBuild =>
              /\ \A k \in Views :
                    \A i \in DispatchesOf(last'.trace,
                                          ViewOf(k, Group, Source, Material).Label) :
                        InRecompute(last'.trace, i)
              /\ DispatchedViews(last'.trace) \subseteq touched
              /\ "recompute" \in EventNames(last'.trace)
                    => DispatchedViews(last'.trace) = touched]_vars

\* A render with DelayedBuild false that used the stored, non-empty
\* ViewResult of a view.
C3_Witness ==
    /\ last.op \in RenderOps
    /\ last.raised = NoExc
    /\ ~DelayedBuild
    /\ Len(last.used) > 0
    /\ last.objstrings[1] # << >>

\* C3 as stated: a render with DelayedBuild false never dispatches a view
\* of the project.
C3_NeverDispatches ==
    (last.op \in RenderOps /\ ~DelayedBuild) => DispatchedViews(last.trace) = {}

\* C4 as stated, for a module that follows the backend contract:
\* get_rendering_string never raises; whatever fails in the dispatch, it
\* logs a warning that names the view and returns the empty string.
C4_NeverRaises ==
    (retv.done /\ argv.rdrname = "Stub") =>
        /\ retv.raised = NoExc
        /\ retv.calls = << >> => (retv.text = << >> /\ retv.warnings = <<argv.view.Label>>)

\* A view of the project is broken: its Source link is unset.
BrokenView(k) == Source[k] = NoSource

\* C5 as stated: with a renderer that is found (here one that follows the
\* backend contract, in a session with the GUI up) and a template that
\* exists, a render of a scene with a broken view runs to its end and calls
\* the backend's render.
C5_BrokenViewNeverAborts ==
    (/\ last.op = "render"
     /\ GuiUp
     /\ Renderer = "Stub"
     /\ Template.path # NoPath /\ Template.exists
     /\ \E k \in Views : BrokenView(k)) =>
        /\ last.raised = NoExc
        /\ "backend_render" \in EventNames(last.trace)

\* The sources that yield no mesh, a mesh without vertices, a mesh without
\* faces and a mesh without normals.
InvalidMeshSources == {"Sketch", "NoPoints", "NoFacets", "NoNormals"}

\* The dispatch of the view labelled `label` in the trace called fn.
CalledFor(trace, label, fn) ==
    \E i \in 1..(Len(trace) - 1) :
        /\ trace[i] = Event("dispatch", label)
        /\ trace[i + 1] = Event("call", fn)

WarnedFor(trace, label) ==
    \E i \in 1..Len(trace) : trace[i] = Event("warning", label)

\* The template of the scenes with cam and content in place of the lines of
\* the markers.
SceneMerged(cam, content) ==
    <<"header", NL>> \o cam \o <<NL>> \o content \o <<NL, "footer">>

IsText(t) == t # << >>

\* C6 (amended): in a render that gets to the merge, write_object is never
\* called for a view whose source yields an invalid mesh; the other visible
\* objects are still dispatched to write_object; the view that is skipped
\* contributes the empty string to the strings that are joined, so the
\* content put in the template is the join of the strings of all the visible
\* views, with an empty line for each view skipped.
C6_InvalidMeshSkipped ==
    (last.op \in RenderOps /\ "mkstemp" \in EventNames(last.trace)) =>
        /\ \A i \in 1..Len(last.used) :
              LET k == last.used[i]
              IN  /\ Source[k] \in InvalidMeshSources =>
                        /\ last.objstrings[i] = << >>
                        /\ ~CalledFor(last.trace, ViewOf(k, Group, Source, Material).Label, "write_object")
                        /\ \A c \in 1..Len(last.calls) :
                              last.calls[c].fn = "write_object"
                                  => last.calls[c].args[1] # Source[k]
                        /\ DelayedBuild => WarnedFor(last.trace, ViewOf(k, Group, Source, Material).Label)
                  /\ (Source[k] = "Box" /\ DelayedBuild) =>
                        /\ CalledFor(last.trace, ViewOf(k, Group, Source, Material).Label, "write_object")
                        /\ Renderer = "Stub"
                              => last.objstrings[i] = <<"object:Box">>
        /\ last.merged = SceneMerged(last.cam, Join(last.objstrings))

\* A render by the stub module of a scene with a valid object after one
\* without facets: the content is an empty line and the object.
C6_Witness ==
    /\ last.op = "render"
    /\ Renderer = "Stub"
    /\ DelayedBuild
    /\ ~GroundPlane
    /\ last.objstrings = <<<< >>, <<"object:Box">>>>
    /\ \E k \in Views : Source[k] = "NoFacets"
    /\ last.merged = SceneMerged(last.cam, <<NL, "object:Box">>)

\* C6 as stated: the content put in the template is the join of the strings
\* of the views that were not skipped.
C6_RemainingViewsOnly ==
    (/\ last.op \in RenderOps
     /\ "mkstemp" \in EventNames(last.trace)
     /\ \E i \in 1..Len(last.used) : Source[last.used[i]] \in InvalidMeshSources) =>
        last.merged = SceneMerged(last.cam, Join(SelectSeq(last.objstrings, IsText)))

\* The container of node k of the tree, and the place of k in it.
ParentOf(k) ==
    CHOOSE g \in DOMAIN Group : \E i \in 1..Len(Group[g]) : Group[g][i] = k

PlaceOf(k) ==
    CHOOSE i \in 1..Len(Group[ParentOf(k)]) : Group[ParentOf(k)][i] = k

\* The places passed on the way from the project down to node k.
RECURSIVE NodePath(_)
NodePath(k) ==
    IF k = ProjectNode THEN << >>
    ELSE Append(NodePath(ParentOf(k)), PlaceOf(k))

\* Path p comes before path q in document order.
PathBefore(p, q) ==
    \E n \in 1..Len(p) :
        /\ n <= Len(q)
        /\ p[n] < q[n]
        /\ \A m \in 1..(n - 1) : p[m] = q[m]

\* C7: all_views returns every view of the tree (the nodes that are not
\* groups) exactly once, in depth-first document order, and no group.
C7_AllViews ==
    retv.done =>
        /\ SeqToSet(retv.views) = Views
        /\ \A i, j \in 1..Len(retv.views) :
              i < j => /\ retv.views[i] # retv.views[j]
                       /\ PathBefore(NodePath(retv.views[i]),
                                     NodePath(retv.views[j]))
        /\ \A i \in 1..Len(retv.views) : retv.views[i] \notin DOMAIN Group

\* all_views of a tree in which a view of a nested group comes before a
\* view of the project that was created earlier, and another group is empty.
C7_Witness ==
    /\ retv.done
    /\ Len(retv.views) >= 2
    /\ \E i \in 1..(Len(retv.views) - 1) :
          /\ retv.views[i] > retv.views[i + 1]
          /\ ParentOf(retv.views[i]) # ProjectNode
          /\ ParentOf(retv.views[i + 1]) = ProjectNode
    /\ \E g \in DOMAIN Group : Group[g] = << >>

\* The source of the view of node k is visible.
IsVisible(k) == Deref(Source[k]).Visibility

\* C8: in a render that collects the strings of the views, in either mode of
\* DelayedBuild, there is one string for each view of all_views whose source
\* is visible, in the order of all_views, and none for a view whose source
\* is not visible (the string of the ground plane, if any, comes last).
C8_VisibleViewsInOrder ==
    (last.op \in RenderOps /\ "mkstemp" \in EventNames(last.trace)) =>
        /\ last.used = SelectSeq(AllViews(Group), IsVisible)
        /\ Len(last.objstrings) = Len(last.used) + (IF GroundPlane THEN 1 ELSE 0)
        /\ \A i \in 1..Len(last.used) :
              IF DelayedBuild THEN last.objstrings[i] = <<"object:Box">>
              ELSE last.objstrings[i] \in {<< >>, <<"object:Box">>}

\* A render with DelayedBuild false of a scene with an invisible object
\* between two visible ones, one of them in a nested group, whose strings
\* had been computed.
C8_Witness ==
    /\ last.op = "render"
    /\ ~DelayedBuild
    /\ Len(AllViews(Group)) = 3
    /\ Len(last.used) = 2
    /\ ~IsVisible(AllViews(Group)[2])
    /\ last.objstrings = <<<<"object:Box">>, <<"object:Box">>>>

\* The lines of the template that is merged.
TemplateLines == SplitLines(argv.template, << >>)

\* The lines of the template that contain the marker.
MarkerLines(marker) ==
    {i \in 1..Len(TemplateLines) : Contains(TemplateLines[i], marker)}

\* The content: the strings of the objects, joined.
Content == Join(argv.objstrings)

\* The template with each line i replaced by New(i).
Replaced(New(_)) == Join([i \in 1..Len(TemplateLines) |-> New(i)])

\* What line i of the template becomes when the strings are put in as they
\* are: the camera string for a line with the camera marker, the content for
\* another line with the content marker (after the camera string when the
\* template has no camera marker).
MergedLine(i) ==
    IF Contains(argv.template, CameraMarker)
    THEN IF Contains(TemplateLines[i], CameraMarker) THEN argv.cam
         ELSE IF Contains(TemplateLines[i], ContentMarker) THEN Content
         ELSE TemplateLines[i]
    ELSE IF Contains(TemplateLines[i], ContentMarker)
         THEN argv.cam \o <<NL>> \o Content
         ELSE TemplateLines[i]

\* C9 as stated: the line of the camera marker is replaced by the camera
\* string and the line of the content marker by the joined strings of the
\* objects, the camera string put in being left as it is; without a camera
\* marker, the line of the content marker is replaced by the camera string,
\* a newline and the joined strings; the other lines are unchanged.
C9_MergeAsStated ==
    (/\ retv.done
     /\ Cardinality(MarkerLines(CameraMarker)) <= 1
     /\ Cardinality(MarkerLines(ContentMarker)) <= 1
     /\ MarkerLines(CameraMarker) \cap MarkerLines(ContentMarker) = {}) =>
        /\ retv.raised = NoExc
        /\ retv.text = Replaced(MergedLine)

\* The strings merged have no backslash: re.sub puts them in as they are.
Literal(text) == ~Contains(text, BS)

\* Only the first line that contains each marker is replaced.
FirstLine(i) ==
    IF Contains(argv.template, CameraMarker)
    THEN IF Contains(TemplateLines[i], CameraMarker)
            /\ \A j \in 1..(i - 1) : ~Contains(TemplateLines[j], CameraMarker)
         THEN argv.cam
         ELSE IF /\ Contains(TemplateLines[i], ContentMarker)
                 /\ ~Contains(TemplateLines[i], CameraMarker)
                 /\ \A j \in 1..(i - 1) :
                       ~Contains(TemplateLines[j], ContentMarker)
         THEN Content
         ELSE TemplateLines[i]
    ELSE IF Contains(TemplateLines[i], ContentMarker)
            /\ \A j \in 1..(i - 1) : ~Contains(TemplateLines[j], ContentMarker)
         THEN argv.cam \o <<NL>> \o Content
         ELSE TemplateLines[i]

\* The merges C10 is checked on: the strings put in have no backslash and
\* the camera string has no content marker.
PlainMerge ==
    /\ retv.done
    /\ Literal(argv.cam)
    /\ Literal(Content)
    /\ ~Contains(argv.cam, ContentMarker)

\* The text with every line that contains the marker replaced by the
\* expansion of repl for that line.
EveryLineOf(text, marker, repl) ==
    LET lines == SplitLines(text, << >>)
    IN  Join([i \in 1..Len(lines) |->
                 IF Contains(lines[i], marker)
                 THEN ExpandFrom(repl, 1, lines[i]).out ELSE lines[i]])

\* The string is no replacement template: re.sub raises re.error.
BadTemplate(repl) == ExpandFrom(repl, 1, << >>).err

\* C10 (amended): the merge replaces every line that contains a marker, not
\* the first one only.  Each line with the camera marker becomes the camera
\* string, then each line with the content marker becomes the content (the
\* camera string and the content together when the template has no camera
\* marker); a string is put in as re.sub expands it, which is as it is when
\* it has no backslash, and the merge raises re.error when a string is no
\* replacement template.
C10_EveryMatchReplaced ==
    /\ PlainMerge => (retv.raised = NoExc /\ retv.text = Replaced(MergedLine))
    /\ retv.done =>
          IF Contains(argv.template, CameraMarker)
          THEN IF BadTemplate(argv.cam) \/ BadTemplate(Content)
               THEN retv.raised = ReError
               ELSE /\ retv.raised = NoExc
                    /\ retv.text =
                          EveryLineOf(EveryLineOf(argv.template, CameraMarker,
                                                  argv.cam),
                                      ContentMarker, Content)
          ELSE IF BadTemplate(argv.cam \o <<NL>> \o Content)
               THEN retv.raised = ReError
               ELSE /\ retv.raised = NoExc
                    /\ retv.text = EveryLineOf(argv.template, ContentMarker,
                                               argv.cam \o <<NL>> \o Content)

\* The merge of a template with the content marker on two lines.
C10_Witness ==
    /\ retv.done
    /\ argv.template = <<ContentMarker, NL, ContentMarker>>
    /\ argv.cam = <<"c">>
    /\ argv.objstrings = <<<<"o">>>>
    /\ retv.text = <<"c", NL, "o", NL, "c", NL, "o">>

\* C10 as stated: the first line that contains each marker is replaced and
\* every later line that contains it is left as it was.
C10_FirstMatchOnly ==
    PlainMerge => (retv.raised = NoExc /\ retv.text = Replaced(FirstLine))

\* C11 as stated: the merge of a text that contains neither marker makes no
\* substitution and returns the text unchanged.
C11_MarkerFreeUnchanged ==
    (/\ retv.done
     /\ ~Contains(argv.template, CameraMarker)
     /\ ~Contains(argv.template, ContentMarker)) =>
        /\ retv.raised = NoExc
        /\ retv.text = argv.template

\* The fragments of a merged text: its tokens other than the newline and
\* the words of the template.
IsFragment(tok) == tok \notin {NL, "header", "footer"}

\* C12 as stated: the render by the Povray module of a scene of one valid
\* mesh object and one point light, both visible, with DelayedBuild true and
\* a template with one line for each marker, merges three non-empty
\* fragments, the camera, the object and the light in this order, and
\* leaves no marker.
C12_PovrayEndToEnd ==
    (/\ last.op = "render"
     /\ Renderer = "Povray"
     /\ DelayedBuild
     /\ ~GroundPlane
     /\ AllViews(Group) = <<1, 2>>
     /\ Source = <<"Box", "Lamp">>) =>
        /\ last.raised = NoExc
        /\ last.cam # << >>
        /\ Len(last.objstrings) = 2
        /\ last.objstrings[1] # << >>
        /\ last.objstrings[2] # << >>
        /\ SelectSeq(last.merged, IsFragment)
              = last.cam \o last.objstrings[1] \o last.objstrings[2]
        /\ ~Contains(last.merged, CameraMarker)
        /\ ~Contains(last.merged, ContentMarker)

\* The boxes of the geometry of the visible views of the project, the views
\* in nested groups included.
VisibleBoxes ==
    {Deref(Source[k]).BoundBox :
        k \in {v \in SeqToSet(AllViews(Group)) :
                    /\ Source[v] # NoSource
                    /\ Deref(Source[v]).hasShape
                    /\ IsVisible(v)}}

\* C13 as stated: in a render with the ground plane enabled that reaches the
\* ground plane step, when some visible view of the project (nested groups
\* included) has geometry, the ground plane is the closed polyline of five
\* points at height 0 around the union of the boxes of the visible views,
\* at a margin of half the diagonal of that union.
C13_GroundPlaneRectangle ==
    (/\ last.op = "render"
     /\ GroundPlane
     /\ Len(last.objstrings) > 0
     /\ VisibleBoxes # {}) =>
        last.ground = GroundPolyline(UnionBox(VisibleBoxes),
                                     DiagonalLength(UnionBox(VisibleBoxes)))

\* The views whose strings a render collects: the visible ones.
VisibleViews == SelectSeq(AllViews(Group), IsVisible)

\* C14 as stated: in a render that completes, when the ground plane is
\* enabled and the bounding box is not empty, exactly one text is appended
\* after the texts of the views; when it is disabled, or the box is empty,
\* the texts and the merged content are those of the views alone.
C14_GroundPlaneOnlyWithGeometry ==
    (/\ last.op = "render"
     /\ last.raised = NoExc
     /\ Renderer = "Stub") =>
        IF GroundPlane /\ IsValidBoundBox
        THEN Len(last.objstrings) = Len(VisibleViews) + 1
        ELSE /\ Len(last.objstrings) = Len(VisibleViews)
             /\ last.merged
                  = MergeTemplate(Template.text, last.cam,
                                  SubSeq(last.objstrings, 1,
                                         Len(VisibleViews))).out

\* C15 as stated: after a render with the ground plane enabled, whether it
\* returns or an exception leaves the dispatch of the ground plane, none of
\* the temporary objects of the ground plane is in the document.
C15_DummiesNeverPersist ==
    (/\ last.op = "render"
     /\ GroundPlane
     /\ IsValidBoundBox) =>
        docObjects = {}

\* The steps of render from the creation of the temporary file to its
\* removal, for a template with the extension ext.
TempFileSteps(ext) ==
    <<Event("mkstemp", ext), Event("write", "template"),
      Event("close", "fhandle"), Event("PageResult", ext),
      Event("remove", ext)>>

\* The positions of the event ev in a trace.
Positions(trace, ev) == {i \in 1..Len(trace) : trace[i].ev = ev}

\* C16: in every render, the backend's render is entered only after the
\* merged text was written to a temporary file with the extension of the
\* template, the path of that file was recorded as PageResult and the file
\* was removed right after, in this order; PageResult then holds that path
\* and the file no longer exists.  A render that creates the temporary file
\* and is left by no exception enters the backend's render.
C16_TempFileBeforeBackend ==
    last.op \in RenderOps =>
        /\ \A j \in Positions(last.trace, "backend_render") :
              /\ \E i \in 1..(j - 5) :
                    SubSeq(last.trace, i, i + 4) = TempFileSteps(Template.path.ext)
              /\ Cardinality(Positions(last.trace, "mkstemp")) = 1
              /\ last.PageResult # NoPath
              /\ last.PageResult.ext = Template.path.ext
              /\ last.fpath.path = last.PageResult
              /\ last.fpath \notin last.tempFiles
        /\ (Positions(last.trace, "mkstemp") # {} /\ last.raised = NoExc) =>
              Positions(last.trace, "backend_render") # {}

\* C16 happens: a render has written the file and run the backend, which
\* returned an image.
C16_Witness ==
    /\ last.op = "render"
    /\ last.raised = NoExc
    /\ Positions(last.trace, "backend_render") # {}
    /\ last.result # NoPath
    /\ last.PageResult = TempPath

\* C17 as stated: after a render that has created the temporary file, whether
\* it returned or was left by an exception (raised by the write, by the
\* recording of PageResult or by the backend), the temporary file no longer
\* exists and its handle is closed.
C17_TempFileScoped ==
    (/\ last.op \in RenderOps
     /\ Positions(last.trace, "mkstemp") # {}) =>
        /\ last.fpath \notin tempFiles
        /\ last.handles = {}

\* Whether the project has the property name, with a value that is valid:
\* a path that is not empty, an integer.
IsValid(name) ==
    /\ name \notin props.absent
    /\ IF name = "OutputImage" THEN props[name] # NoPath
       ELSE props[name].kind = "int"

\* C18: the backend's render receives as output the OutputImage property
\* when it is set, otherwise PageResult with its extension replaced by
\* ".png"; as width and height it receives RenderWidth and RenderHeight,
\* each replaced by its default, 800 and 600, when it is absent or not
\* valid.
C18_RenderParameters ==
    (/\ last.op \in RenderOps
     /\ Positions(last.trace, "backend_render") # {}) =>
        /\ last.params.output
              = IF IsValid("OutputImage") THEN props.OutputImage
                ELSE Path(last.PageResult.base, ".png")
        /\ last.params.width
              = IF IsValid("RenderWidth") THEN props.RenderWidth.val ELSE 800
        /\ last.params.height
              = IF IsValid("RenderHeight") THEN props.RenderHeight.val ELSE 600

\* C18 happens: the backend was run for a project with no OutputImage, a
\* RenderWidth that is not an integer and a RenderHeight of 768.
C18_Witness ==
    /\ last.op = "render"
    /\ Positions(last.trace, "backend_render") # {}
    /\ ~IsValid("OutputImage")
    /\ "RenderWidth" \notin props.absent
    /\ props.RenderWidth.kind = "text"
    /\ IsValid("RenderHeight")
    /\ last.params = Params(Path("/tmp/" \o Renderer \o "Project", ".png"), 800, 768)

\* What the backend's render returns for the arguments it received.
BackendResult ==
    HandlerRender(Renderer, last.PageResult, last.params.output,
                  last.params.width, last.params.height).result

\* C19 as stated: a render that has run the backend returns exactly what the
\* backend's render returned, also when that is the empty path; the viewer
\* is asked to open the image exactly when the result is not empty and
\* OpenAfterRender is true; no failure of the opening leaves render.
C19_ReturnsBackendResult ==
    (/\ last.op = "render"
     /\ Positions(last.trace, "backend_render") # {}
     /\ prefs.ImageGui) =>
        /\ last.raised = NoExc
        /\ last.result = BackendResult
        /\ Positions(last.trace, "ImageGui.open") # {}
              <=> /\ BackendResult # NoPath
                  /\ "OpenAfterRender" \notin props.absent
                  /\ props.OpenAfterRender

\* The color and the alpha (in hundredths) a material supplies.
SuppliedColor(matname) ==
    IF matname \in {"absent", NoMaterial} THEN None
    ELSE MaterialColor(MaterialObject(matname))

SuppliedAlpha(matname) ==
    IF matname \in {"absent", NoMaterial} THEN None
    ELSE IF MaterialObject(matname).Transparency = "absent" THEN None
    ELSE Some(100 - Hundredths(MaterialObject(matname).Transparency))

\* The value of the first level that supplies one.
RECURSIVE FirstSupplied(_)
FirstSupplied(levels) ==
    IF Head(levels).set THEN Head(levels).val ELSE FirstSupplied(Tail(levels))

\* The arguments of the call of write_object, if there is one.
ObjectCalls == SelectSeq(retv.calls, LAMBDA c : c.fn = "write_object")

\* C20 as stated: for a view of an object with a valid mesh, the color and
\* the alpha passed to write_object are each the value of the first level
\* that supplies one, in the order: the material of the view, the material
\* of the source, the display color and transparency of the source, white
\* and opaque; this for every value, the alpha of a fully transparent
\* material included.
C20_ColorAlphaPrecedence ==
    (/\ retv.done
     /\ argv.op = "dispatch"
     /\ argv.rdrname = "Stub"
     /\ Len(ObjectCalls) > 0) =>
        /\ ObjectCalls[1].args[3]
              = FirstSupplied(<<SuppliedColor(argv.view.Material),
                                SuppliedColor(Deref(argv.view.Source).Material),
                                IF argv.guiUp
                                THEN Some(FirstThree(Deref(argv.view.Source).ShapeColor))
                                ELSE None,
                                Some(<<"1.0", "1.0", "1.0">>)>>)
        /\ ObjectCalls[1].args[4]
              = FirstSupplied(<<SuppliedAlpha(argv.view.Material),
                                SuppliedAlpha(Deref(argv.view.Source).Material),
                                IF argv.guiUp
                                THEN Some(100 - Deref(argv.view.Source).Transparency)
                                ELSE None,
                                Some(100)>>)

\* The shape of the tree below the container c, as a text: the sources of
\* its views and, in brackets, the shapes of its groups, in order.
RECURSIVE Shape(_, _, _, _)
Shape(group, source, members, keep) ==
    IF Len(members) = 0 THEN ""
    ELSE (IF Head(members) \in DOMAIN group
          THEN "[" \o Shape(group, source, group[Head(members)], keep) \o "]"
          ELSE IF source[Head(members)] \in keep
          THEN source[Head(members)] \o ";"
          ELSE "")
         \o Shape(group, source, Tail(members), keep)

Renderable(name) == IsRenderable(SourceObject(name))

Inputs == {"Box", "Lamp", "Sketch"}

\* The shape of the project tree, and of the forest passed to add_objects
\* without the objects that are not renderable.
ProjectShape == Shape(Group, Source, Group[ProjectNode], Inputs)

ForestShape ==
    Shape(GroupOf(argv.objs, argv.objs.n), SourceOf(argv.objs, argv.objs.n),
          GroupOf(argv.objs, argv.objs.n)[ProjectNode],
          {name \in Inputs : Renderable(name)})

\* The objects of the forest that are neither groups nor renderable.
Rejected ==
    {k \in 1..argv.objs.n :
        argv.objs.kind[k] # "group" /\ ~Renderable(argv.objs.kind[k])}

\* C21 as stated: add_objects returns, and the project tree it leaves is the
\* tree it found followed, under the project, by the forest of its inputs:
\* one new group for each input group, one new view for each renderable
\* input, in the order of the inputs, also for a source that already has a
\* view; for every other input there is a warning and nothing else.
C21_AddObjectsMirrors ==
    [][(argv.op = "add_objects" /\ retv'.done /\ ~retv.done) =>
          /\ retv'.raised = NoExc
          /\ ProjectShape' = ProjectShape \o ForestShape
          /\ Len(retv'.warnings) = Cardinality(Rejected)]_vars

\* C22: with DelayedBuild true the ViewResult of a view is written at render
\* time: after a render that collected the strings of the visible views, the
\* ViewResult of each of them is the string the render computed for it.
\* (That a recomputation writes ViewResult exactly when DelayedBuild is false
\* is what Execute does; the render computes the strings and stores none.)
C22_WrittenAtRender ==
    (last.op \in RenderOps /\ DelayedBuild /\ last.raised = NoExc) =>
        \A i \in 1..Len(last.used) :
            ViewResult[last.used[i]] = last.objstrings[i]

\* C23: the Render command renders the selected project or, when no project
\* is selected, a project of the document: whenever the document holds a
\* project the command has entered the render of it, and when it holds none
\* the command returns without an exception.
C23_RendersDefaultProject ==
    last.op = "command" =>
        IF \E i \in 1..Len(argv.doc) : HasRenderer(argv.doc[i])
        THEN Event("Proxy.render", "Project") \in SeqToSet(last.trace)
        ELSE last.raised = NoExc

\* A well-formed source of each of the four kinds.
WellFormedSources == {"Box", "Cam", "Lamp", "Panel"}

\* C24: the Povray module defines the five functions of the backend
\* contract, and the dispatch of a well-formed view of each of the four kinds
\* to it enters the function of the kind and returns its text, without a
\* warning.
C24_PovraySatisfiesContract ==
    (/\ argv.op = "dispatch"
     /\ argv.rdrname = "Povray"
     /\ argv.view.Source \in WellFormedSources
     /\ retv.done) =>
        /\ {"write_camera", "write_object", "write_pointlight",
            "write_arealight", "render"} \subseteq DOMAIN PovrayModule
        /\ retv.raised = NoExc
        /\ retv.warnings = << >>
        /\ retv.text # << >>

\* The function of the backend that matches a kind.
KindFunction(kind) ==
    CASE kind = "Object" -> "write_object"
      [] kind = "Camera" -> "write_camera"
      [] kind = "PointLight" -> "write_pointlight"
      [] kind = "AreaLight" -> "write_arealight"
      [] OTHER -> "none"

\* The kind of the view dispatched: the type marker of its source, Object
\* when the source has none.
DispatchedKind ==
    IF Deref(argv.view.Source).ptype = "absent" THEN "Object"
    ELSE Deref(argv.view.Source).ptype

\* The functions of the four kinds are defined by the module with the
\* numbers of parameters of the backend contract.
HasContractSignatures(module) ==
    /\ \A fn \in {"write_object", "write_camera", "write_pointlight"} :
          fn \in DOMAIN module /\ module[fn].arity = 4
    /\ "write_arealight" \in DOMAIN module
    /\ module["write_arealight"].arity = 6

\* The source holds what the dispatch of its kind reads: a shape or a mesh
\* that gives a valid mesh for an Object, an aspect ratio and a placement
\* for a Camera, a location and a color for a PointLight, a placement, a
\* color and the numbers of the power and of the two sizes for an AreaLight.
ValidData(src, kind) ==
    CASE kind = "Object" ->
            src.TypeId \in {"Part::Feature", "Mesh::Feature"} /\ src.mesh = "valid"
      [] kind = "Camera" ->
            src.AspectRatio \in Numerals /\ src.Placement # "absent"
      [] kind = "PointLight" ->
            src.Location # "absent" /\ src.Color # "absent"
      [] kind = "AreaLight" ->
            /\ src.Placement # "absent"
            /\ src.Color # "absent"
            /\ {src.Power, src.SizeU, src.SizeV} \subseteq Numerals
      [] OTHER -> FALSE

\* The view dispatched has a source, and the source the data of its kind.
DispatchedValid ==
    /\ argv.view.Source # NoSource
    /\ ValidData(Deref(argv.view.Source), DispatchedKind)

\* C25 (amended): a dispatch enters at most one function of the backend,
\* and only the function that matches the kind given by the type marker of
\* the source (Object without a marker).  It enters exactly that one
\* function when the source holds valid data of its kind and the module
\* defines the functions with the signatures of the contract.  It enters no
\* function when the data is missing or invalid; a view of an object
\* without a valid mesh is then skipped: the empty string is returned and a
\* warning names the view.  A PointLight without Power is passed to
\* write_pointlight with the power 60, without a failure.
C25_DispatchByKind ==
    (argv.op = "dispatch" /\ retv.done) =>
        /\ Len(retv.calls) <= 1
        /\ \A i \in 1..Len(retv.calls) :
              /\ retv.calls[i].fn = KindFunction(DispatchedKind)
              /\ retv.calls[i].args[1] = argv.view.Source
        /\ (DispatchedValid /\ HasContractSignatures(RendererModule(argv.rdrname)))
              => Len(retv.calls) = 1
        /\ ~DispatchedValid => retv.calls = << >>
        /\ (~DispatchedValid /\ ObjType(argv.view.Source) = "Object")
              => /\ retv.raised = NoExc
                 /\ retv.text = << >>
                 /\ retv.warnings = <<argv.view.Label>>
        /\ (argv.rdrname = "Stub" /\ argv.view.Source = "Bulb")
              => /\ retv.raised = NoExc
                 /\ retv.warnings = << >>
                 /\ retv.text = <<"pointlight:Bulb">>
                 /\ retv.calls = <<[fn |-> "write_pointlight",
                                    args |-> <<"Bulb", "location", "color", "60">>]>>

\* C25 happens: a PointLight that has no Power was dispatched to a module
\* that follows the contract, and write_pointlight was entered.
C25_Witness ==
    /\ argv.op = "dispatch"
    /\ retv.done
    /\ argv.rdrname = "Stub"
    /\ argv.view.Source = "Bulb"
    /\ Len(retv.calls) = 1
    /\ retv.calls[1].fn = "write_pointlight"

\* C25 as stated, for the modules that define the functions with the
\* signatures of the contract and the sources whose marker names one of the
\* four kinds (or that have no marker): every dispatch enters exactly one
\* function of the backend, the one that matches the kind.
C25_ExactlyOneCall ==
    (/\ argv.op = "dispatch"
     /\ retv.done
     /\ argv.view.Source # NoSource
     /\ HasContractSignatures(RendererModule(argv.rdrname))
     /\ KindFunction(DispatchedKind) # "none") =>
        /\ Len(retv.calls) = 1
        /\ retv.calls[1].fn = KindFunction(DispatchedKind)

\* C26: in a render that has run the render of Povray, when no path of the
\* executable is configured no command is run, the empty path is returned,
\* the image is not opened and no exception leaves the render; when a path
\* is configured exactly one command is run and the output path is returned,
\* whatever the exit status of the command.
C26_PovrayRender ==
    (/\ last.op \in RenderOps
     /\ Renderer = "Povray"
     /\ Positions(last.trace, "backend_render") # {}) =>
        IF prefs.PovRayPath = ""
        THEN /\ Positions(last.trace, "os.system") = {}
             /\ last.cmd = << >>
             /\ last.img = NoPath
             /\ last.op = "render" => last.result = NoPath
             /\ Positions(last.trace, "ImageGui.open") = {}
             /\ last.raised = NoExc
        ELSE /\ Cardinality(Positions(last.trace, "os.system")) = 1
             /\ last.cmd # << >>
             /\ last.img = last.params.output

\* C26 happens: a project that opens its image after the render was
\* rendered with Povray while no path of the executable was configured.
C26_Witness ==
    /\ last.op = "render"
    /\ Renderer = "Povray"
    /\ Positions(last.trace, "backend_render") # {}
    /\ prefs.PovRayPath = ""
    /\ props.OpenAfterRender
    /\ last.result = NoPath

\* The flag of a size, and the positions of a command where a flag of that
\* letter with a number begins.
SizeFlagText(letter, size) == <<"+", letter>> \o Numeral(size)

NumberedFlags(cmd, letter) ==
    {i \in 1..(Len(cmd) - 2) :
        cmd[i] = "+" /\ cmd[i + 1] = letter /\ IsDigit(cmd[i + 2])}

FlagAt(cmd, i) == SubSeq(cmd, i, DigitsEnd(cmd, i + 2) - 1)

\* C27: for every configured parameter string and every width and height,
\* the command that Povray runs carries the flag +W of the width and the
\* flag +H of the height and no such flag with another number, and it ends
\* with the path of the scene file.
C27_CommandCarriesSize ==
    (/\ last.op \in RenderOps
     /\ Renderer = "Povray"
     /\ Positions(last.trace, "os.system") # {}) =>
        /\ NumberedFlags(last.cmd, "W") # {}
        /\ \A i \in NumberedFlags(last.cmd, "W") :
              FlagAt(last.cmd, i) = SizeFlagText("W", last.params.width)
        /\ NumberedFlags(last.cmd, "H") # {}
        /\ \A i \in NumberedFlags(last.cmd, "H") :
              FlagAt(last.cmd, i) = SizeFlagText("H", last.params.height)
        /\ last.cmd[Len(last.cmd)] = PathText(last.PageResult)

\* The properties of a project that the restore of a document may add.
AddedLast == {"OutputImage", "RenderWidth", "RenderHeight", "OpenAfterRender"}

\* C28: set_properties, run when the document is restored, leaves every
\* property that the project already had with the value it had: Renderer,
\* DelayedBuild, Template, GroundPlane, and each of OutputImage, RenderWidth,
\* RenderHeight and OpenAfterRender that was present; once it has run no
\* property is missing, so that a second run changes nothing.
C28_SetPropertiesKeepsValues ==
    [][last'.op = "restore" =>
          /\ Renderer' = Renderer
          /\ DelayedBuild' = DelayedBuild
          /\ Template' = Template
          /\ GroundPlane' = GroundPlane
          /\ \A name \in AddedLast \ props.absent : props'[name] = props[name]
          /\ props'.absent = {}]_vars

\* C29: when DelayedBuild is set to false every view of all_views is
\* touched; when a property is set and DelayedBuild is true afterwards no
\* view is touched; and the ViewResult that a render uses once DelayedBuild
\* is false has been rewritten by a recomputation: it is the string the
\* dispatcher gives for the view.
C29_TouchedAndRewrittenBeforeUse ==
    [][/\ (last'.op = "set" /\ ~DelayedBuild')
            => SeqToSet(AllViews(Group)) \subseteq touched'
       /\ (last'.op = "set" /\ DelayedBuild') => touched' = touched
       /\ (last'.op \in RenderOps /\ ~DelayedBuild /\ last'.raised = NoExc)
            => \A i \in 1..Len(last'.used) :
                  last'.objstrings[i]
                     = GetRenderingString(RendererModule(Renderer),
                                          ViewOf(last'.used[i], Group, Source, Material),
                                          GuiUp).text]_vars

\* The events of a trace that dispatch the default camera.
DefaultCameraDispatches(trace) ==
    {i \in 1..Len(trace) : trace[i] = Event("dispatch", DefaultCameraView.Label)}

\* C30: in every render that has merged the template, the default camera
\* was built once, from the camera of the active view with the GUI and from
\* the built-in string without it, and dispatched once; its text alone
\* takes the place of the camera line, whatever views of cameras the scene
\* holds; the text of every visible view of a camera is among the texts of
\* the content, in the order of the views; and no view of the project has
\* the default camera as its source.
C30_DefaultCameraOnly ==
    (last.op \in RenderOps /\ Positions(last.trace, "mkstemp") # {}) =>
        /\ Cardinality(Positions(last.trace, "camstr")) = 1
        /\ Event("camstr", IF GuiUp THEN "ActiveView.getCamera"
                           ELSE "DEFAULT_CAMERA_STRING")
              \in SeqToSet(last.trace)
        /\ Cardinality(DefaultCameraDispatches(last.trace)) = 1
        /\ last.cam = <<"camera:Default_Camera">>
        /\ last.merged = <<"header", NL>> \o last.cam \o <<NL>>
                            \o Join(last.objstrings) \o <<NL, "footer">>
        /\ last.used = SelectSeq(AllViews(Group),
                                 LAMBDA k : Deref(Source[k]).Visibility)
        /\ \A i \in 1..Len(last.used) :
              (Source[last.used[i]] = "Cam" /\ DelayedBuild)
                 => last.objstrings[i] = <<"camera:Cam">>
        /\ \A k \in Views : Source[k] # "Default_Camera"

\* C30 happens: a scene with a visible view of a camera was rendered, and
\* the text of that camera is in the content, after the default camera.
C30_Witness ==
    /\ last.op = "render"
    /\ Positions(last.trace, "mkstemp") # {}
    /\ \E i \in 1..Len(last.used) : Source[last.used[i]] = "Cam"
    /\ <<"camera:Cam">> \in SeqToSet(last.objstrings)
    /\ last.cam = <<"camera:Default_Camera">>

=============================================================================
